---- MODULE Spec2Model ----
(***************************************************************************)
(* netbox2ise: desired-state derivation (utils/conversion.py), the         *)
(* reconciliation of desired against current Cisco ISE configuration, and  *)
(* the sync / verify commands (netbox2ise.py, utils/cli_utils.py).          *)
(*                                                                         *)
(* Python values are modelled as follows.                                  *)
(*   str    a sequence of chunks; free text is one character per chunk,    *)
(*          literal text of the source is one chunk per literal piece and  *)
(*          a "{x}" placeholder of a format template is one chunk.         *)
(*          Opaque strings nothing operates on (device names, secrets,     *)
(*          urls) are TLA+ strings.                                        *)
(*   dict   a function from its keys (TLA+ strings) to values; a key that  *)
(*          is absent from the dict is absent from the DOMAIN.             *)
(*   None, False   the records None and False.                             *)
(*   a str that may be None is the record [str |-> s] (or None).           *)
(*   a dict that may be False, or whose iteration order matters, is the    *)
(*          record [keys |-> its keys in iteration order, at |-> the       *)
(*          function from its keys to its values]; where the order is not  *)
(*          read (the groups) the record has only "at".                    *)
(***************************************************************************)
EXTENDS Integers, Sequences, FiniteSets, TLC

VARIABLES
    pc,                  \* position of the command / of the function under check
    exc,                 \* the exception that ended the call or the command
    record,              \* the NetBox record handed to ise_device_from_netbox
    secrets,             \* the [tacacs, radius] secrets handed to it
    ise_device,          \* the dictionary it returned
    desired_devices,     \* dict name -> desired ISE device
    desired_groups,      \* set of desired group names
    current_devices,     \* current ISE devices, in the dict's iteration order
    current_groups,      \* dict group name -> [id, description]
    desired_group_description, \* the description the groups are to carry
    current_in,          \* current_devices as handed to diff_ise_devices
    devices_diff,        \* what diff_ise_devices returned
    groups_diff,         \* what diff_ise_groups returned
    cmd,                 \* the command run: "sync" or "verify"
    display_group_diff,  \* verify's --display-group-diff
    njobs,               \* the number of jobs of the data file
    job,                 \* the job the loop is at, 1..njobs
    job_outputs,         \* what generate_desired_ise_config returned, per job
    failed,              \* the lookups that failed
    log,                 \* the calls made so far, in order
    input_name,          \* the name handed to ise_name_cleanup
    cleaned_name,        \* what ise_name_cleanup returned
    ise_module,          \* the adapter loaded: "ise" or "ciscosdk_ise"
    desired_order,       \* the keys of desired_devices in insertion order
    write_outcome,       \* how each write of sync_devices ended
    devices_sync,        \* what sync_devices returned
    groups_sync,         \* what sync_groups returned
    writes,              \* the writes sent to ISE so far, in order
    nb_query,            \* the netbox_query of the job handed to get_desired_devices
    netbox,              \* what the NetBox server holds, and whether it answers
    nb_lookup,           \* what lookup_nb_devices returned
    lookup_fn,           \* the paginated lookup under check: [module, kind]
    total,               \* the "total" every page response reports
    fail_at,             \* the page whose request fails, 0 when none does
    detail_empty,        \* the entry whose detail request returns nothing, 0: none
    page,                \* the page counter of the lookup's loop
    requested,           \* the pages requested so far, in order
    collected,           \* the keys of the dictionary the lookup is filling
    lookup_result        \* what the lookup returned

buildVars == <<record, secrets, ise_device, input_name, cleaned_name>>
syncVars == <<ise_module, desired_order, write_outcome, devices_sync, groups_sync,
              writes>>
lookupVars == <<nb_query, netbox, nb_lookup>>
pageVars == <<lookup_fn, total, fail_at, detail_empty, page, requested, collected,
              lookup_result>>
runVars == <<cmd, display_group_diff, njobs, job, job_outputs, failed, log, syncVars>>

vars == <<pc, exc, record, secrets, ise_device, desired_devices, desired_groups,
          current_devices, current_groups, desired_group_description, current_in,
          devices_diff, groups_diff, cmd, display_group_diff, njobs, job,
          job_outputs, failed, log, input_name, cleaned_name, ise_module,
          desired_order, write_outcome, devices_sync, groups_sync, writes,
          lookupVars, pageVars>>

\* ------------------------------------------------------------------ bounds
MaxNameLen == 2
MaxCurrent == 2
MaxJobs == 2
MaxCleanupLen == 3

\* ----------------------------------------------------------------- strings
None == [py_none |-> TRUE]
False == [py_false |-> TRUE]
Str(s) == [str |-> s]

Chars == {"a", "/", "(", ")"}

\* free text of 1..MaxNameLen characters
Text == UNION {[1..n -> Chars] : n \in 1..MaxNameLen}

\* str.replace(old, new) for a one-character old and a string new
RECURSIVE Replace(_, _, _)
Replace(s, old, new) ==
    IF s = <<>> THEN <<>>
    ELSE (IF Head(s) = old THEN new ELSE <<Head(s)>>) \o Replace(Tail(s), old, new)

\* str.format(**b): every placeholder chunk named in b is replaced by its value
RECURSIVE Format(_, _)
Format(t, b) ==
    IF t = <<>> THEN <<>>
    ELSE (IF Head(t) \in DOMAIN b THEN b[Head(t)] ELSE <<Head(t)>>) \o Format(Tail(t), b)

\* str.split(sep)[0]: the text before the first sep
RECURSIVE SplitFirst(_, _)
SplitFirst(s, sep) ==
    IF s = <<>> \/ Head(s) = sep THEN <<>>
    ELSE <<Head(s)>> \o SplitFirst(Tail(s), sep)

\* does the string contain one of the characters of cs
HasChar(s, cs) == \E i \in 1..Len(s) : s[i] \in cs

\* ------------------------------------------------------- ise_name_cleanup
\* (mutant) the closing parenthesis is kept
ise_name_cleanup_keep_close(name) ==
    Replace(Replace(name, "/", <<"-">>), "(", <<>>)

ise_name_cleanup(name) ==
    LET n1 == Replace(name, "/", <<"-">>)
        n2 == Replace(n1, "(", <<>>)
    IN  Replace(n2, ")", <<>>)

\* -------------------------------------------------- ise_groups_from_netbox
IsDevice(device) == device.kind = "Devices"
IsVM(device) == device.kind = "VirtualMachines"

location_group(device) ==
    LET tpl == <<"Location", "#", "All Locations", "{site}", "{rack}">>
    IN  IF IsDevice(device)
        THEN Format(tpl,
                 ("{site}" :> (<<"#">> \o device.site.name)) @@
                 ("{rack}" :> (IF device.rack # None
                               THEN <<"#">> \o ise_name_cleanup(device.rack.name)
                               ELSE <<>>)))
        ELSE IF IsVM(device)
        THEN IF device.cluster # None
             THEN Format(tpl,
                      ("{site}" :> (IF device.cluster.site # None
                                    THEN <<"#">> \o device.cluster.site.name
                                    ELSE <<>>)) @@
                      ("{rack}" :> (<<"#", "VM Clusters", "#">>
                                    \o ise_name_cleanup(device.cluster.name))))
             ELSE Format(tpl,
                      ("{site}" :> (IF device.site # None
                                    THEN <<"#">> \o device.site.name
                                    ELSE <<>>)) @@
                      ("{rack}" :> <<"#", "VM Clusters", "#", "None">>))
        ELSE tpl

device_type_group(device) ==
    LET tpl == <<"Device Type", "#", "All Device Types", "#",
                 "{manufacturer}", "#", "{device_type}">>
    IN  IF IsDevice(device)
        THEN Format(tpl,
                 ("{manufacturer}" :> device.device_type.manufacturer.name) @@
                 ("{device_type}" :> device.device_type.model))
        ELSE IF IsVM(device)
        THEN Format(tpl,
                 ("{manufacturer}" :> <<"All VMs">>) @@
                 ("{device_type}" :> <<"General VM">>))
        ELSE tpl

role_group(device) ==
    LET tpl == <<"Device Role", "#", "Device Role", "{role}">>
    IN  IF IsDevice(device)
        THEN Format(tpl,
                 "{role}" :> (<<"#">> \o ise_name_cleanup(device.device_role.name)))
        ELSE IF IsVM(device) /\ device.role # None
        THEN Format(tpl, "{role}" :> (<<"#">> \o ise_name_cleanup(device.role.name)))
        ELSE tpl

tenant_group(device) ==
    LET tpl == <<"Tenant", "#", "Tenant", "{tenant_group}", "{tenant}">>
    IN  Format(tpl,
            ("{tenant_group}" :> (IF device.tenant # None /\ device.tenant.group # None
                                  THEN <<"#">> \o device.tenant.group.name
                                  ELSE <<>>)) @@
            ("{tenant}" :> (IF device.tenant # None
                            THEN <<"#">> \o device.tenant.name
                            ELSE <<>>)))

ipsec_group == <<"IPSEC", "#", "Is IPSEC Device", "#", "No">>

\* (mutant) the tenant group is listed before the role group
ise_groups_tenant_before_role(device) ==
    <<location_group(device), device_type_group(device), tenant_group(device),
      role_group(device), ipsec_group>>

ise_groups_from_netbox(device) ==
    <<location_group(device), device_type_group(device), role_group(device),
      tenant_group(device), ipsec_group>>

\* -------------------------------------------------- ise_device_from_netbox
CoaPort == 1700
Mask == 32

tacacsSettings(tacacs_secret) ==
    [sharedSecret |-> tacacs_secret, connectModeOptions |-> "ON_LEGACY"]

authenticationSettings(radius_secret) ==
    [networkProtocol |-> "RADIUS",
     radiusSharedSecret |-> radius_secret,
     enableKeyWrap |-> FALSE,
     dtlsRequired |-> FALSE,
     keyEncryptionKey |-> <<>>,
     messageAuthenticatorCodeKey |-> <<>>,
     keyInputFormat |-> "ASCII",
     enableMultiSecret |-> "false"]

\* (mutant) only None counts as no secret
Truthy_not_none(secret) == secret # None

\* Python truth of a secret: neither None nor the empty string
Truthy(secret) == secret # None /\ secret.str # <<>>

ise_device_from_netbox(device, tacacs_secret, radius_secret) ==
    LET base == [name |-> device.name,
                 description |-> <<"From NetBox: ", device.url>>,
                 profileName |-> "Cisco",
                 coaPort |-> CoaPort,
                 NetworkDeviceIPList |->
                     <<[ipaddress |-> SplitFirst(device.primary_ip.address, "/"),
                        mask |-> Mask]>>,
                 NetworkDeviceGroupList |-> ise_groups_from_netbox(device)]
        tac == IF Truthy(tacacs_secret)
               THEN "tacacsSettings" :> tacacsSettings(tacacs_secret.str)
               ELSE <<>>
        rad == IF Truthy(radius_secret)
               THEN "authenticationSettings" :> authenticationSettings(radius_secret.str)
               ELSE <<>>
    IN  base @@ tac @@ rad

\* ------------------------------------------------------- set_of_ise_groups
SeqToSet(s) == {s[i] : i \in DOMAIN s}

\* ise_devices: the devices (the values of a dict name -> device); the set of
\* the concatenation of their group lists is the union of the lists' sets
set_of_ise_groups(ise_devices) ==
    UNION {SeqToSet(ise_devices[k]["NetworkDeviceGroupList"]) : k \in DOMAIN ise_devices}

\* --------------------------------------------------------- diff_ise_groups
\* (mutant) a group is reported correct when its description differs
diff_ise_groups_inverted(desired, current, desired_description) ==
    LET set_current_groups == DOMAIN current.at
        existing_groups == desired \cap set_current_groups
    IN  [correct |-> {g \in existing_groups :
                          current.at[g].description # desired_description},
         missing |-> desired \ set_current_groups,
         extra |-> set_current_groups \ desired,
         incorrect |-> {g \in existing_groups :
                            ~(current.at[g].description # desired_description)}]

\* desired: a set of group names; current: dict name -> [id, description]
diff_ise_groups(desired, current, desired_description) ==
    LET set_current_groups == DOMAIN current.at
        missing_groups == desired \ set_current_groups
        extra_groups == set_current_groups \ desired
        existing_groups == desired \cap set_current_groups
    IN  [correct |-> {g \in existing_groups :
                          ~(current.at[g].description # desired_description)},
         missing |-> missing_groups,
         extra |-> extra_groups,
         incorrect |-> {g \in existing_groups :
                            current.at[g].description # desired_description}]

\* -------------------------------------------------------- diff_ise_devices
DropKey(d, k) == [x \in DOMAIN d \ {k} |-> d[x]]

\* (mutant) an empty secret alone makes the block unconfigured
RadiusUnconfigured_empty_secret(cur) ==
    LET auth == cur["authenticationSettings"]
    IN  \/ "radiusSharedSecret" \notin DOMAIN auth
        \/ auth["radiusSharedSecret"] = <<>>

\* the test of lines 245-252 on one current record that has the key
RadiusUnconfigured(cur) ==
    LET auth == cur["authenticationSettings"]
    IN  \/ "radiusSharedSecret" \notin DOMAIN auth
        \/ /\ auth["radiusSharedSecret"] = <<>>
           /\ "networkProtocol" \notin DOMAIN auth

\* position, in iteration order, of the first current record whose lookup of
\* "authenticationSettings" raises KeyError; 0 when there is none
FirstKeyError(current) ==
    LET bad == {i \in DOMAIN current.keys :
                   "authenticationSettings" \notin DOMAIN current.at[current.keys[i]]}
    IN  IF bad = {} THEN 0 ELSE CHOOSE i \in bad : \A j \in bad : i <= j

\* the loop of lines 244-258: current_devices as the loop leaves it (when a
\* lookup raised, the records before it have been visited)
remove_unconfigured_radius(current) ==
    LET stop == FirstKeyError(current)
        visited == {current.keys[i] : i \in {i \in DOMAIN current.keys :
                                                 stop = 0 \/ i < stop}}
    IN  [keys |-> current.keys,
         at |-> [n \in DOMAIN current.at |->
                    IF n \in visited /\ RadiusUnconfigured(current.at[n])
                    THEN DropKey(current.at[n], "authenticationSettings")
                    ELSE current.at[n]]]

FirstIp(dev) == dev["NetworkDeviceIPList"][1]["ipaddress"]

\* lines 291-294: dict ip -> device, a later device replacing an earlier one
current_ips(current) ==
    LET ipAt(i) == FirstIp(current.at[current.keys[i]])
    IN  [ip \in {ipAt(i) : i \in DOMAIN current.keys} |->
            current.at[current.keys[
                CHOOSE i \in DOMAIN current.keys :
                    /\ ipAt(i) = ip
                    /\ \A j \in DOMAIN current.keys : ipAt(j) = ip => j <= i]]]

\* (mutant) pairing by name only, without the pass over the addresses
pair_current_by_name(desired, current) ==
    IF desired.name \in DOMAIN current.at THEN current.at[desired.name] ELSE None

\* (mutant) a current record of the same name is preferred to one of the same
\* address
pair_current_name_first(desired, current) ==
    LET ips == current_ips(current)
    IN  IF desired.name \in DOMAIN current.at THEN current.at[desired.name]
        ELSE IF FirstIp(desired) \in DOMAIN ips THEN ips[FirstIp(desired)]
        ELSE None

\* lines 275-306: the current record a desired device ends up paired with
pair_current(desired, current) ==
    LET by_name == IF desired.name \in DOMAIN current.at
                   THEN current.at[desired.name]
                   ELSE None
        ips == current_ips(current)
    IN  IF FirstIp(desired) \in DOMAIN ips THEN ips[FirstIp(desired)] ELSE by_name

\* DeepDiff(t1, t2, exclude_paths=...): the paths at which t1 and t2 differ
\* (mutant) the description is excluded too
exclude_paths_and_description == {"id", "link", "NetworkDeviceGroupList", "description"}

exclude_paths == {"id", "link", "NetworkDeviceGroupList"}
exclude_paths_tacacs == {"previousSharedSecret", "previousSharedSecretExpiry"}

DictDiff(t1, t2, excluded, prefix) ==
    {prefix \o <<k>> : k \in {k \in (DOMAIN t1 \cup DOMAIN t2) \ excluded :
                                 \/ k \notin DOMAIN t1
                                 \/ k \notin DOMAIN t2
                                 \/ t1[k] # t2[k]}}

DeepDiff(t1, t2) ==
    LET both_tacacs == /\ "tacacsSettings" \in DOMAIN t1
                       /\ "tacacsSettings" \in DOMAIN t2
        top == DictDiff(t1, t2,
                        exclude_paths \cup
                            (IF both_tacacs THEN {"tacacsSettings"} ELSE {}),
                        <<>>)
        nested == IF both_tacacs
                  THEN DictDiff(t1["tacacsSettings"], t2["tacacsSettings"],
                                exclude_paths_tacacs, <<"tacacsSettings">>)
                  ELSE {}
    IN  [paths |-> top \cup nested]

\* (mutant) a field diff never counts
HasChanges_never(changes) == FALSE

\* Python truth of working[device]["changes"]
HasChanges(changes) == changes # None /\ changes.paths # {}

\* lines 261-334: the working entry of one desired device
working_entry(desired, current) ==
    LET cur == pair_current(desired, current)
        current_groups_set == IF cur # None
                              THEN SeqToSet(cur["NetworkDeviceGroupList"])
                              ELSE {}
        desired_groups_set == SeqToSet(desired["NetworkDeviceGroupList"])
    IN  [desired |-> desired,
         current |-> cur,
         changes |-> IF cur # None THEN DeepDiff(cur, desired) ELSE None,
         group_changes |->
             [correct |-> desired_groups_set \cap current_groups_set,
              missing |-> desired_groups_set \ current_groups_set,
              extra |-> current_groups_set \ desired_groups_set]]

\* (mutant) a paired device whose groups differ is filed under extra
classify_groups_extra(info) ==
    IF HasChanges(info.changes) THEN "incorrect"
    ELSE IF info.current = None THEN "missing"
    ELSE IF info.group_changes.missing # {} \/ info.group_changes.extra # {}
         THEN "extra"
         ELSE "correct"

\* (mutant) the group sub-diff is looked at before the paired record
classify_groups_before_current(info) ==
    IF HasChanges(info.changes) THEN "incorrect"
    ELSE IF info.group_changes.missing # {} \/ info.group_changes.extra # {}
    THEN "incorrect"
    ELSE IF info.current = None THEN "missing"
    ELSE "correct"

\* lines 338-353: the category of one working entry
classify(info) ==
    IF HasChanges(info.changes) THEN "incorrect"
    ELSE IF info.current = None THEN "missing"
    ELSE IF info.group_changes.missing # {} \/ info.group_changes.extra # {}
         THEN "incorrect"
         ELSE "correct"

Restrict(f, S) == [x \in S |-> f[x]]

\* (mutant) the current devices of set_names_extra (line 285) are filed
extra_devices_by_name(desired, current) ==
    Restrict(current.at, DOMAIN current.at \ DOMAIN desired)

\* lines 336 and 355-356: results["extra"] is created empty and never filled
extra_devices(desired, current) == <<>>

\* desired: dict name -> desired device; current: the dict of current devices,
\* or False (line 244 then raises TypeError: a bool is not iterable).
\* The result carries what the call raised ("none" when it returned), the
\* returned dictionary and the current devices as the call left them.
diff_ise_devices(desired, current) ==
    LET normal == remove_unconfigured_radius(current)
        working == [n \in DOMAIN desired |-> working_entry(desired[n], normal)]
        cat(c) == Restrict(working, {n \in DOMAIN working : classify(working[n]) = c})
    IN  IF current = False
        THEN [raised |-> "TypeError", results |-> None, current |-> current]
        ELSE IF FirstKeyError(current) # 0
        THEN [raised |-> "KeyError", results |-> None, current |-> normal]
        ELSE [raised |-> "none",
              results |-> [correct |-> cat("correct"),
                           incorrect |-> cat("incorrect"),
                           missing |-> cat("missing"),
                           extra |-> extra_devices(desired, normal)],
              current |-> normal]

\* ================================================================= inputs
\* NetBox records (pynetbox Devices / VirtualMachines) as the builder reads them
Named(text) == [name |-> text]

NbDevice(name, url, address, site, rack, manufacturer, model, role, tenant) ==
    [kind |-> "Devices", name |-> name, url |-> url,
     primary_ip |-> [address |-> address],
     site |-> Named(site), rack |-> rack,
     device_type |-> [manufacturer |-> Named(manufacturer), model |-> model],
     device_role |-> Named(role), tenant |-> tenant]

NbVM(name, url, address, site, cluster, role, tenant) ==
    [kind |-> "VirtualMachines", name |-> name, url |-> url,
     primary_ip |-> [address |-> address],
     site |-> site, cluster |-> cluster, role |-> role, tenant |-> tenant]

Plain == <<"a">>

\* tenant: None, a tenant without a tenant group, a tenant in a tenant group
Tenants(texts) ==
    {None} \cup {[name |-> t, group |-> None] : t \in texts}
           \cup {[name |-> t, group |-> Named(g)] : t \in texts, g \in texts}

Optional(texts) == {None} \cup {Named(t) : t \in texts}

Clusters(texts) ==
    {None} \cup {[name |-> c, site |-> s] : c \in texts, s \in Optional(texts)}

Address(ip) == ip \o <<"/", "24">>

\* record is a NetBox record whose free-text segments are drawn from texts
IsNbRecord(r, texts) ==
    \/ \E s \in texts, ra \in Optional(texts), ma \in texts, mo \in texts,
          ro \in texts, te \in Tenants(texts) :
          r = NbDevice("D1", "u1", Address(<<"10.0.0.5">>), s, ra, ma, mo, ro, te)
    \/ \E s \in Optional(texts), c \in Clusters(texts), ro \in Optional(texts),
          te \in Tenants(texts) :
          r = NbVM("D2", "u2", Address(<<"10.0.0.6">>), s, c, ro, te)

\* a secret of the job's ise_config: not given, empty, or set
SecretKinds == {"none", "empty", "set"}
Secret(kind, text) ==
    CASE kind = "none" -> None
      [] kind = "empty" -> Str(<<>>)
      [] OTHER -> Str(<<text>>)

\* ------------------------------------------------------------ SpecGroups
\* no command is running
NoCommand ==
    /\ cmd = "none" /\ display_group_diff = FALSE
    /\ njobs = 0 /\ job = 0 /\ job_outputs = <<>>
    /\ failed = {} /\ log = <<>>
    /\ ise_module = "none" /\ desired_order = <<>>
    /\ write_outcome = <<>> /\ devices_sync = None
    /\ groups_sync = None /\ writes = <<>>

\* get_desired_devices is not under check
NoLookup == nb_query = None /\ netbox = None /\ nb_lookup = None

\* no paginated lookup is under check
NoPages ==
    /\ lookup_fn = None /\ total = 0 /\ fail_at = 0 /\ detail_empty = 0
    /\ page = 0 /\ requested = <<>> /\ collected = {} /\ lookup_result = None

NoRun == NoCommand /\ NoLookup /\ NoPages

\* the desired-state derivation applied to one NetBox record
Idle ==
    /\ exc = "none"
    /\ desired_devices = <<>> /\ desired_groups = {}
    /\ current_devices = None /\ current_groups = None
    /\ desired_group_description = <<>> /\ current_in = None
    /\ devices_diff = None /\ groups_diff = None

InitGroups ==
    /\ pc = "call_ise_device_from_netbox"
    /\ \/ /\ \E t \in Text : IsNbRecord(record, {t, Plain})
          /\ secrets = [tacacs |-> None, radius |-> None]
       \/ /\ IsNbRecord(record, {Plain})
          /\ \E t, r \in SecretKinds :
                secrets = [tacacs |-> Secret(t, "t1"), radius |-> Secret(r, "r1")]
    /\ ise_device = None
    /\ input_name = <<>> /\ cleaned_name = <<>>
    /\ Idle
    /\ NoRun

CallIseDeviceFromNetbox ==
    /\ UNCHANGED <<lookupVars, pageVars>>
    /\ pc = "call_ise_device_from_netbox"
    /\ ise_device' = ise_device_from_netbox(record, secrets.tacacs, secrets.radius)
    /\ pc' = "returned"
    /\ UNCHANGED <<exc, record, secrets, input_name, cleaned_name,
                   desired_devices, desired_groups,
                   current_devices, current_groups, desired_group_description,
                   current_in, devices_diff, groups_diff, runVars>>

NextGroups == CallIseDeviceFromNetbox

SpecGroups == InitGroups /\ [][NextGroups]_vars

\* ----------------------------------------------------------- SpecCleanup
\* ise_name_cleanup applied to a name, and once more to what it returned
CleanupChars == Chars \cup {"-"}

Names == UNION {[1..n -> CleanupChars] : n \in 0..MaxCleanupLen}

InitCleanup ==
    /\ pc = "call_ise_name_cleanup"
    /\ input_name \in Names
    /\ cleaned_name = <<>>
    /\ record = None /\ secrets = None /\ ise_device = None
    /\ Idle
    /\ NoRun

CallIseNameCleanup ==
    /\ UNCHANGED <<lookupVars, pageVars>>
    /\ pc = "call_ise_name_cleanup"
    /\ cleaned_name' = ise_name_cleanup(input_name)
    /\ pc' = "cleaned"
    /\ UNCHANGED <<exc, record, secrets, ise_device, input_name,
                   desired_devices, desired_groups,
                   current_devices, current_groups, desired_group_description,
                   current_in, devices_diff, groups_diff, runVars>>

CallIseNameCleanupAgain ==
    /\ UNCHANGED <<lookupVars, pageVars>>
    /\ pc = "cleaned"
    /\ input_name' = cleaned_name
    /\ cleaned_name' = ise_name_cleanup(cleaned_name)
    /\ pc' = "cleaned_again"
    /\ UNCHANGED <<exc, record, secrets, ise_device,
                   desired_devices, desired_groups,
                   current_devices, current_groups, desired_group_description,
                   current_in, devices_diff, groups_diff, runVars>>

NextCleanup == CallIseNameCleanup \/ CallIseNameCleanupAgain

SpecCleanup == InitCleanup /\ [][NextCleanup]_vars

\* -------------------------------------------------------------- SpecDiff
\* diff_ise_devices and diff_ise_groups applied to desired and current state
DesiredNames == {"D1", "D2"}
CurrentNames == {"D1", "D2", "OLD-D1"}
Ips == {<<"10.0.0.5">>, <<"10.0.0.6">>}

\* the NetBox record a device name stands for, at a primary address
NbFor(name, ip) ==
    IF name = "D2"
    THEN NbVM("D2", "u2", Address(ip), Named(Plain), None, Named(Plain), None)
    ELSE NbDevice("D1", "u1", Address(ip), Plain, None, Plain, Plain, Plain, None)

Desired(name, ip, tacacs, radius) ==
    ise_device_from_netbox(NbFor(name, ip), tacacs, radius)

\* what ISE reports for a device with RADIUS disabled (lines 234-241)
radius_disabled ==
    [radiusSharedSecret |-> <<>>,
     enableKeyWrap |-> FALSE,
     dtlsRequired |-> FALSE,
     keyEncryptionKey |-> <<>>,
     messageAuthenticatorCodeKey |-> <<>>,
     keyInputFormat |-> "ASCII",
     enableMultiSecret |-> "false"]

OtherGroup == <<"Tenant", "#", "Tenant", "#", "other">>

\* a current record: the record ISE would hold after a sync of the desired
\* device (under the name ISE knows it by), changed in one respect
CurrentForms == {"copy", "synced", "description", "groups", "tacacs",
                 "radius_disabled", "radius_absent", "radius_secret",
                 "radius_no_secret", "radius_empty_secret"}

\* the forms that only the current record named D1 is given
FormsOfD1 == {"radius_no_secret", "radius_empty_secret"}

CurrentRecord(form, name, ip, tacacs, radius) ==
    LET rec == ("name" :> name) @@
               Desired(IF name = "OLD-D1" THEN "D1" ELSE name, ip, tacacs, radius)
        seen == IF "tacacsSettings" \in DOMAIN rec
                THEN "tacacsSettings" :>
                         (rec["tacacsSettings"] @@
                          [previousSharedSecret |-> <<"t0">>,
                           previousSharedSecretExpiry |-> 0])
                ELSE <<>>
    IN  CASE form = "copy" -> rec
          [] form = "synced" -> seen @@ rec @@ [id |-> <<"id-", name>>,
                                                link |-> <<"link-", name>>]
          [] form = "description" -> ("description" :> <<"edited">>) @@ rec
          [] form = "groups" ->
                 ("NetworkDeviceGroupList" :>
                      [rec["NetworkDeviceGroupList"] EXCEPT ![4] = OtherGroup]) @@ rec
          [] form = "tacacs" ->
                 ("tacacsSettings" :> tacacsSettings(<<"t0">>)) @@ rec
          [] form = "radius_disabled" ->
                 ("authenticationSettings" :> radius_disabled) @@ rec
          [] form = "radius_absent" -> DropKey(rec, "authenticationSettings")
          [] form = "radius_no_secret" ->
                 ("authenticationSettings" :>
                      DropKey(radius_disabled, "radiusSharedSecret")) @@ rec
          [] form = "radius_empty_secret" ->
                 ("authenticationSettings" :> authenticationSettings(<<>>)) @@ rec
          [] OTHER ->
                 ("authenticationSettings" :> authenticationSettings(<<"r0">>)) @@ rec

Injective(s) == \A i, j \in DOMAIN s : s[i] = s[j] => i = j

\* the orders in which ISE may list at most MaxCurrent of its devices
CurrentKeys ==
    {s \in UNION {[1..n -> CurrentNames] : n \in 0..MaxCurrent} : Injective(s)}

\* the desired and the current records of the inputs, tabulated
SecretSettings == {"none", "set"}

DesiredTable ==
    [n \in DesiredNames, ip \in Ips, t \in SecretSettings, r \in SecretSettings |->
        Desired(n, ip, Secret(t, "t1"), Secret(r, "r1"))]

CurrentTable ==
    [f \in CurrentForms, n \in CurrentNames, ip \in Ips,
     t \in SecretSettings, r \in SecretSettings |->
        CurrentRecord(f, n, ip, Secret(t, "t1"), Secret(r, "r1"))]

\* the addresses a name is given in the inputs
DesiredIps(n, S) == IF n = "D2" /\ "D1" \in S THEN Ips ELSE {<<"10.0.0.5">>}
CurrentIpsOf(n) == IF n = "D2" THEN {<<"10.0.0.6">>} ELSE Ips

DevicesInput ==
    \E t, r \in SecretSettings :
       /\ \E S \in SUBSET DesiredNames :
          \E ip2 \in DesiredIps("D2", S) :
             desired_devices =
                 [n \in S |-> DesiredTable[n, IF n = "D2" THEN ip2 ELSE <<"10.0.0.5">>,
                                           t, r]]
       /\ \E keys \in CurrentKeys :
          \E ip \in [SeqToSet(keys) -> Ips], form \in [SeqToSet(keys) -> CurrentForms] :
             /\ \A n \in SeqToSet(keys) : ip[n] \in CurrentIpsOf(n)
             /\ \A n \in SeqToSet(keys) : form[n] \in FormsOfD1 => n = "D1"
             /\ current_devices =
                    [keys |-> keys,
                     at |-> [n \in SeqToSet(keys) |-> CurrentTable[form[n], n, ip[n], t, r]]]

GroupNames == SeqToSet(ise_groups_from_netbox(NbFor("D1", <<"10.0.0.5">>)))
FromNetBoxSoT == <<"From NetBox SoT">>
Descriptions == {FromNetBoxSoT, <<>>}

GroupsInput ==
    /\ desired_groups \in SUBSET {g \in GroupNames : g # ipsec_group}
    /\ \E S \in SUBSET GroupNames :
       \E d \in [S -> Descriptions] :
          current_groups =
              [at |-> [g \in S |-> [id |-> <<"id-">> \o g, description |-> d[g]]]]
    /\ desired_group_description \in Descriptions

InitDiff ==
    /\ exc = "none"
    /\ NoRun
    /\ record = None /\ secrets = None /\ ise_device = None
    /\ input_name = <<>> /\ cleaned_name = <<>>
    /\ current_in = None /\ devices_diff = None /\ groups_diff = None
    /\ \/ /\ pc = "call_diff_ise_devices"
          /\ DevicesInput
          /\ desired_groups = {} /\ current_groups = None
          /\ desired_group_description = <<>>
       \/ /\ pc = "call_diff_ise_groups"
          /\ GroupsInput
          /\ desired_devices = <<>> /\ current_devices = None

CallDiffIseDevices ==
    /\ UNCHANGED <<lookupVars, pageVars>>
    /\ pc = "call_diff_ise_devices"
    /\ LET r == diff_ise_devices(desired_devices, current_devices)
       IN  /\ current_in' = current_devices
           /\ current_devices' = r.current
           /\ exc' = r.raised
           /\ devices_diff' = r.results
           /\ pc' = IF r.raised = "none" THEN "returned" ELSE "raised"
    /\ UNCHANGED <<buildVars, desired_devices, desired_groups,
                   current_groups, desired_group_description, groups_diff, runVars>>

CallDiffIseGroups ==
    /\ UNCHANGED <<lookupVars, pageVars>>
    /\ pc = "call_diff_ise_groups"
    /\ groups_diff' = diff_ise_groups(desired_groups, current_groups,
                                      desired_group_description)
    /\ pc' = "returned"
    /\ UNCHANGED <<exc, buildVars, desired_devices,
                   desired_groups, current_devices, current_groups,
                   desired_group_description, current_in, devices_diff, runVars>>

NextDiff == CallDiffIseDevices \/ CallDiffIseGroups

SpecDiff == InitDiff /\ [][NextDiff]_vars

\* ------------------------------------------------------------------ Spec
\* the sync and verify commands (netbox2ise.py), after the data file was read

\* what lookup_ise_devices may return: False, or the dict of the devices
DeviceLookups ==
    {False, [keys |-> <<>>, at |-> <<>>]} \cup
    {[keys |-> <<n>>, at |-> (n :> CurrentTable[f, n, <<"10.0.0.5">>, "none", "set"])] :
        n \in {"D1", "OLD-D1"}, f \in {"synced", "radius_absent"}}

GroupRecord(g, description) == [id |-> <<"id-">> \o g, description |-> description]

\* what lookup_groups may return: False, or the dict of the groups
GroupLookups ==
    {False,
     [at |-> <<>>],
     [at |-> [g \in GroupNames |-> GroupRecord(g, FromNetBoxSoT)]],
     [at |-> [g \in {ipsec_group, OtherGroup,
                      device_type_group(NbFor("D1", <<"10.0.0.5">>))} |->
                 GroupRecord(g, IF g \in {ipsec_group, OtherGroup}
                                THEN <<>> ELSE FromNetBoxSoT)]]}

\* the records NetBox holds: two devices named D1, a VM named D1, a VM named D2
NbD1 == NbFor("D1", <<"10.0.0.5">>)
NbD1Moved == NbDevice("D1", "u1", Address(<<"10.0.0.5">>), <<"b">>, None,
                      Plain, Plain, Plain, None)
NbVmD1 == NbVM("D1", "u3", Address(<<"10.0.0.6">>), None, None, None, None)
NbD2 == NbFor("D2", <<"10.0.0.6">>)

\* what lookup_nb_devices may return for a job
NetBoxLookups ==
    {[status |-> FALSE]} \cup
    {[status |-> TRUE, devices |-> d, vms |-> v] :
        d \in {<<>>, <<NbD1>>, <<NbD1Moved>>},
        v \in {<<>>, <<NbVmD1>>, <<NbD2>>}}

\* cli_utils.py lines 182-204: one loop filling desired_devices
RECURSIVE build_desired(_, _, _, _)
build_desired(acc, records, tacacs_secret, radius_secret) ==
    IF records = <<>> THEN acc
    ELSE build_desired(
             (Head(records).name :>
                  ise_device_from_netbox(Head(records), tacacs_secret, radius_secret))
                 @@ acc,
             Tail(records), tacacs_secret, radius_secret)

\* netbox_devices: a successful lookup; the secrets are those of the job
get_desired_devices(netbox_devices, tacacs_secret, radius_secret) ==
    build_desired(build_desired(<<>>, netbox_devices.devices,
                                tacacs_secret, radius_secret),
                  netbox_devices.vms, tacacs_secret, radius_secret)

generate_desired_ise_config(netbox_devices, tacacs_secret, radius_secret) ==
    LET devices == get_desired_devices(netbox_devices, tacacs_secret, radius_secret)
    IN  [devices |-> devices, groups |-> set_of_ise_groups(devices)]

\* (mutant) an entry already present is kept
update_devices_keep(merged, new) == merged @@ new

\* netbox2ise.py line 104: desired_devices.update(job_desired_devices)
update_devices(merged, new) == new @@ merged

\* the keys of a job's desired_devices in insertion order: the devices, then
\* the vms, a name keeping the place of its first insertion
RECURSIVE FirstInsertions(_, _)
FirstInsertions(names, seen) ==
    IF names = <<>> THEN <<>>
    ELSE (IF Head(names) \in seen THEN <<>> ELSE <<Head(names)>>)
             \o FirstInsertions(Tail(names), seen \cup {Head(names)})

key_order(netbox_devices) ==
    FirstInsertions([i \in DOMAIN netbox_devices.devices |->
                        netbox_devices.devices[i].name]
                    \o [i \in DOMAIN netbox_devices.vms |->
                           netbox_devices.vms[i].name],
                    {})

\* netbox2ise.py line 104: dict.update leaves the keys it finds in their place
\* and appends the new ones
update_order(order, new) == order \o FirstInsertions(new, SeqToSet(order))

\* netbox2ise.py line 105: desired_groups.update(job_desired_groups)
update_groups(merged, new) == merged \cup new

\* Python truth of a dict that may be False
DictTruthy(d) == d # False /\ DOMAIN d.at # {}

\* cli_utils.py lines 247-284; calls: the reconcilers called, in order
diff_configs(current_devs, desired_devs, current_grps, desired_grps, description) ==
    LET dev == IF DOMAIN desired_devs # {}
               THEN diff_ise_devices(desired_devs, current_devs)
               ELSE [raised |-> "none", results |-> None, current |-> current_devs]
        dev_calls == IF DOMAIN desired_devs # {} THEN <<"diff_ise_devices">> ELSE <<>>
        grp_called == dev.raised = "none" /\ DictTruthy(current_grps) /\ desired_grps # {}
    IN  [raised |-> dev.raised,
         devices_diff |-> dev.results,
         groups_diff |-> IF grp_called
                         THEN diff_ise_groups(desired_grps, current_grps, description)
                         ELSE None,
         current |-> dev.current,
         calls |-> dev_calls \o (IF grp_called THEN <<"diff_ise_groups">> ELSE <<>>)]

\* how a write handed to the ISE library may end: the library returns the
\* result of an accepted request, returns that of a rejected one, or raises
\* (as the calls guarded in verify_ise do when ISE cannot be reached)
WriteOutcomes == {"ok", "rejected", "raised"}

\* results["updated"][device], by adapter: ise.py line 236 stores what
\* pyiseers returns, ciscosdk_ise.py lines 237-246 the response of the SDK call
update_device_result(module, outcome) ==
    IF module = "ise"
    THEN [success |-> outcome = "ok",
          response |-> IF outcome = "ok" THEN "updatedField" ELSE "error message"]
    ELSE IF outcome = "ok" THEN [UpdatedFieldsList |-> "updatedField"]
         ELSE [ERSResponse |-> "error message"]

\* results["created"][device], by adapter: ise.py line 245 stores what
\* pyiseers returns, ciscosdk_ise.py lines 268-271 build the entry from the
\* status code
add_device_result(module, outcome) ==
    IF module = "ise"
    THEN [success |-> outcome = "ok",
          response |-> IF outcome = "ok" THEN "created" ELSE "error message"]
    ELSE IF outcome = "ok"
         THEN [success |-> TRUE, response |-> "Added Successfully"]
         ELSE [success |-> FALSE, response |-> "Error Adding Device"]

\* dict.get(k): the value at k, None when k is absent
Get(d, k) == IF k \in DOMAIN d THEN d[k] ELSE None

\* the keyword arguments the SDK adapter passes for a device (ciscosdk_ise.py
\* lines 238-245 and 255-262): the fields of the desired record, one by one
sdk_device_args(name, desired) ==
    [name |-> name,
     description |-> desired["description"],
     profile_name |-> desired["profileName"],
     coa_port |-> desired["coaPort"],
     network_device_iplist |-> desired["NetworkDeviceIPList"],
     network_device_group_list |-> desired["NetworkDeviceGroupList"],
     tacacs_settings |-> Get(desired, "tacacsSettings"),
     authentication_settings |-> Get(desired, "authenticationSettings")]

\* the update sent for an incorrect device: ise.py lines 236-239 pass the
\* current name and the whole desired record, ciscosdk_ise.py lines 237-246 the
\* current name and the fields of the desired record
update_device(module, device, diff_details) ==
    [op |-> "update_device", key |-> device,
     args |-> IF module = "ise"
              THEN [name |-> diff_details.current["name"],
                    device_payload |-> diff_details.desired]
              ELSE sdk_device_args(diff_details.current["name"],
                                   diff_details.desired)]

\* the create sent for a missing device: ise.py line 245, ciscosdk_ise.py
\* lines 254-263
add_device(module, device, diff_details) ==
    [op |-> "add_device", key |-> device,
     args |-> IF module = "ise"
              THEN [device_payload |-> diff_details.desired]
              ELSE sdk_device_args(diff_details.desired["name"],
                                   diff_details.desired)]

\* ise.py lines 217-260, ciscosdk_ise.py lines 223-287: one update per incorrect
\* device, then one create per missing device, in the order of the diff; no
\* write is guarded, so the first that raises ends the function.
\* calls: the names of the writes issued, in order; sent: the writes themselves.
sync_devices(module, diff, order, outcome) ==
    LET upd == SelectSeq(order, LAMBDA n : n \in DOMAIN diff.incorrect)
        add == SelectSeq(order, LAMBDA n : n \in DOMAIN diff.missing)
        todo == upd \o add
        raising == {i \in DOMAIN todo : outcome[todo[i]] = "raised"}
        stop == IF raising = {} THEN 0
                ELSE CHOOSE i \in raising : \A j \in raising : i <= j
        issued == IF stop = 0 THEN Len(todo) ELSE stop
    IN  [raised |-> stop # 0,
         results |->
             IF stop # 0 THEN None
             ELSE [updated |-> [n \in SeqToSet(upd) |->
                                   update_device_result(module, outcome[n])],
                   created |-> [n \in SeqToSet(add) |->
                                   add_device_result(module, outcome[n])],
                   deleted |-> <<>>],
         calls |-> [i \in 1..issued |->
                       IF i <= Len(upd) THEN "update_device" ELSE "add_device"],
         sent |-> [i \in 1..issued |->
                      IF i <= Len(upd)
                      THEN update_device(module, todo[i], diff.incorrect[todo[i]])
                      ELSE add_device(module, todo[i], diff.missing[todo[i]])]]

\* the order in which a Python set is iterated: one order per set
RECURSIVE Enumerate(_)
Enumerate(S) ==
    IF S = {} THEN <<>>
    ELSE LET x == CHOOSE y \in S : TRUE
         IN  <<x>> \o Enumerate(S \ {x})

\* the update sent for an incorrect group: ise.py lines 125-127 pass the id of
\* the current group and the description, ciscosdk_ise.py lines 125-127 also
\* the name and the root of the group
update_device_group(module, group, current, description) ==
    [op |-> "update_device_group", key |-> group,
     args |-> IF module = "ise"
              THEN [device_group_oid |-> current.at[group].id,
                    description |-> description]
              ELSE [id |-> current.at[group].id,
                    description |-> description,
                    name |-> group,
                    othername |-> SplitFirst(group, "#")]]

\* the create sent for a missing group: ise.py lines 132-134, ciscosdk_ise.py
\* lines 133-135
add_device_group(module, group, description) ==
    [op |-> "add_device_group", key |-> group,
     args |-> IF module = "ise"
              THEN [name |-> group, description |-> description]
              ELSE [name |-> group, description |-> description,
                    othername |-> SplitFirst(group, "#")]]

\* the loop over the extra groups with its delete in force
delete_extra_groups_enabled(extra) ==
    [sent |-> [i \in 1..Cardinality(extra) |->
                  [op |-> "delete_device_group", key |-> Enumerate(extra)[i],
                   args |-> [name |-> Enumerate(extra)[i]]]],
     deleted |-> [g \in extra |-> "returned"]]

\* the delete of an extra group: ise.py line 140 and ciscosdk_ise.py line 142
\* are comments, so the loop over the extra groups sends nothing and stores
\* nothing
delete_extra_groups(extra) == [sent |-> <<>>, deleted |-> <<>>]

\* ise.py lines 107-146, ciscosdk_ise.py lines 107-148: one update per incorrect
\* group, then one create per missing group; no write is guarded, so a write
\* that raises ends the function.  raising: the position of the write that
\* raises, 0 when none does.  What a write returns is stored as it comes.
\* ciscosdk_ise.py line 136 sets remove_extra to True whatever was passed.
sync_groups(module, current, group_diff, description, remove_extra, raising) ==
    LET upd == Enumerate(group_diff.incorrect)
        add == Enumerate(group_diff.missing)
        todo == [i \in 1..Len(upd) |->
                    update_device_group(module, upd[i], current, description)]
                \o [i \in 1..Len(add) |->
                       add_device_group(module, add[i], description)]
        stop == IF raising \in 1..Len(todo) THEN raising ELSE 0
        removed == IF remove_extra \/ module = "ciscosdk_ise"
                   THEN delete_extra_groups(group_diff.extra)
                   ELSE [sent |-> <<>>, deleted |-> <<>>]
    IN  [raised |-> stop # 0,
         results |->
             IF stop # 0 THEN None
             ELSE [updated |-> [g \in group_diff.incorrect |-> "returned"],
                   created |-> [g \in group_diff.missing |-> "returned"],
                   deleted |-> removed.deleted],
         calls |-> [i \in 1..(IF stop = 0 THEN Len(todo) ELSE stop) |-> todo[i].op],
         sent |-> IF stop = 0 THEN todo \o removed.sent ELSE SubSeq(todo, 1, stop)]

\* (mutant) the devices are synchronized before the groups
sync_steps_devices_first == <<"sync_devices", "sync_groups">>

\* netbox2ise.py lines 118 and 139: the reconcile steps of sync, in order
sync_steps == <<"sync_groups", "sync_devices">>

\* the position of the command after the reconcile step `step` has returned
step_after(step) ==
    IF \E i \in 1..(Len(sync_steps) - 1) : sync_steps[i] = step
    THEN sync_steps[(CHOOSE i \in 1..(Len(sync_steps) - 1) : sync_steps[i] = step) + 1]
    ELSE "done"

\* n times the call op
Calls(op, n) == [i \in 1..n |-> op]

Init ==
    /\ pc = "lookup_current_ise_config"
    /\ exc = "none"
    /\ record = None /\ secrets = None /\ ise_device = None
    /\ input_name = <<>> /\ cleaned_name = <<>>
    /\ cmd \in {"sync", "verify"}
    /\ display_group_diff \in (IF cmd = "verify" THEN BOOLEAN ELSE {FALSE})
    /\ njobs \in 0..MaxJobs
    /\ ise_module \in {"ise", "ciscosdk_ise"}
    /\ desired_order = <<>>
    /\ write_outcome = <<>> /\ devices_sync = None
    /\ groups_sync = None /\ writes = <<>>
    /\ job = 1
    /\ job_outputs = <<>>
    /\ failed = {}
    /\ log = <<>>
    /\ NoLookup /\ NoPages
    /\ desired_devices = <<>> /\ desired_groups = {}
    /\ current_devices = None /\ current_groups = None
    /\ desired_group_description = FromNetBoxSoT
    /\ current_in = None /\ devices_diff = None /\ groups_diff = None

\* cli_utils.py lines 209-226: both lookups are made, whatever the first returned
LookupCurrentIseConfig ==
    /\ UNCHANGED <<lookupVars, pageVars>>
    /\ pc = "lookup_current_ise_config"
    /\ \E devices \in DeviceLookups, groups \in GroupLookups :
          /\ current_devices' = devices
          /\ current_groups' = groups
          /\ failed' = (IF devices = False THEN {"lookup_ise_devices"} ELSE {})
                       \cup (IF groups = False THEN {"lookup_groups"} ELSE {})
    /\ log' = log \o <<"lookup_ise_devices", "lookup_groups">>
    /\ pc' = "jobs"
    /\ UNCHANGED <<exc, buildVars, desired_devices, desired_groups,
                   desired_group_description, current_in, devices_diff, groups_diff,
                   cmd, display_group_diff, njobs, job, job_outputs, syncVars>>

\* netbox2ise.py lines 96-105: one turn of the loop over the jobs.  A failed
\* lookup_nb_devices returns a dict without "devices", which get_desired_devices
\* reads (cli_utils.py line 183): KeyError ends the command.
ProcessJob ==
    /\ UNCHANGED <<lookupVars, pageVars>>
    /\ pc = "jobs"
    /\ job <= njobs
    /\ \E netbox_devices \in NetBoxLookups :
          IF netbox_devices.status
          THEN LET out == generate_desired_ise_config(netbox_devices, None,
                                                      Secret("set", "r1"))
               IN  /\ desired_devices' = update_devices(desired_devices, out.devices)
                   /\ desired_groups' = update_groups(desired_groups, out.groups)
                   /\ desired_order' = update_order(desired_order,
                                                     key_order(netbox_devices))
                   /\ job_outputs' = Append(job_outputs, out)
                   /\ job' = job + 1
                   /\ UNCHANGED <<pc, exc, failed>>
          ELSE /\ pc' = "crashed"
               /\ exc' = "KeyError"
               /\ failed' = failed \cup {"lookup_nb_devices"}
               /\ UNCHANGED <<desired_devices, desired_groups, desired_order,
                              job_outputs, job>>
    /\ log' = Append(log, "lookup_nb_devices")
    /\ UNCHANGED <<buildVars, current_devices, current_groups,
                   desired_group_description, current_in, devices_diff, groups_diff,
                   cmd, display_group_diff, njobs, ise_module, write_outcome,
                   devices_sync, groups_sync, writes>>

\* netbox2ise.py lines 108-115 and 214-221
DiffConfigs ==
    /\ UNCHANGED <<lookupVars, pageVars>>
    /\ pc = "jobs"
    /\ job > njobs
    /\ LET r == diff_configs(current_devices, desired_devices, current_groups,
                             desired_groups, desired_group_description)
       IN  /\ exc' = r.raised
           /\ devices_diff' = r.devices_diff
           /\ groups_diff' = r.groups_diff
           /\ current_devices' = r.current
           /\ current_in' = IF "diff_ise_devices" \in SeqToSet(r.calls)
                            THEN current_devices ELSE current_in
           /\ log' = log \o <<"diff_configs">> \o r.calls
           /\ pc' = IF r.raised # "none" THEN "crashed"
                    ELSE IF cmd = "sync" THEN sync_steps[1] ELSE "print_diffs"
    /\ UNCHANGED <<buildVars, desired_devices, desired_groups, current_groups,
                   desired_group_description, cmd, display_group_diff, njobs, job,
                   job_outputs, failed, syncVars>>

\* netbox2ise.py lines 118-124: sync_groups is called with the groups diff and
\* the description "From NetBox SoT", remove_extra left at its default;
\* group_diff["correct"] of None raises
SyncGroups ==
    /\ UNCHANGED <<lookupVars, pageVars>>
    /\ pc = "sync_groups"
    /\ IF groups_diff = None
       THEN /\ pc' = "crashed"
            /\ exc' = "TypeError"
            /\ log' = Append(log, "sync_groups")
            /\ UNCHANGED <<groups_sync, writes>>
       ELSE \E raising \in 0..Cardinality(groups_diff.incorrect \cup
                                          groups_diff.missing) :
               LET r == sync_groups(ise_module, current_groups, groups_diff,
                                    FromNetBoxSoT, FALSE, raising)
               IN  /\ groups_sync' = r.results
                   /\ writes' = writes \o r.sent
                   /\ pc' = IF r.raised THEN "crashed" ELSE step_after("sync_groups")
                   /\ exc' = IF r.raised THEN "Exception" ELSE exc
                   /\ log' = log \o <<"sync_groups">> \o r.calls
    /\ UNCHANGED <<buildVars, desired_devices, desired_groups, current_devices,
                   current_groups, desired_group_description, current_in,
                   devices_diff, groups_diff, cmd, display_group_diff, njobs, job,
                   job_outputs, failed, ise_module, desired_order, write_outcome,
                   devices_sync>>

\* netbox2ise.py lines 139-141: sync_devices is called with the devices diff;
\* devices_diff["correct"] of None raises
SyncDevices ==
    /\ UNCHANGED <<lookupVars, pageVars>>
    /\ pc = "sync_devices"
    /\ IF devices_diff = None
       THEN /\ pc' = "crashed"
            /\ exc' = "TypeError"
            /\ log' = Append(log, "sync_devices")
            /\ UNCHANGED <<write_outcome, devices_sync, writes>>
       ELSE \E outcome \in [DOMAIN devices_diff.incorrect \cup
                                 DOMAIN devices_diff.missing -> WriteOutcomes] :
               LET r == sync_devices(ise_module, devices_diff, desired_order, outcome)
               IN  /\ write_outcome' = outcome
                   /\ devices_sync' = r.results
                   /\ writes' = writes \o r.sent
                   /\ pc' = IF r.raised THEN "crashed" ELSE step_after("sync_devices")
                   /\ exc' = IF r.raised THEN "Exception" ELSE exc
                   /\ log' = log \o <<"sync_devices">> \o r.calls
    /\ UNCHANGED <<buildVars, desired_devices, desired_groups, current_devices,
                   current_groups, desired_group_description, current_in,
                   devices_diff, groups_diff, cmd, display_group_diff, njobs, job,
                   job_outputs, failed, ise_module, desired_order, groups_sync>>

\* netbox2ise.py lines 223-226: the tables iterate over the diffs; iterating
\* over None raises
PrintDiffs ==
    /\ UNCHANGED <<lookupVars, pageVars>>
    /\ pc = "print_diffs"
    /\ LET raises == (display_group_diff /\ groups_diff = None) \/ devices_diff = None
       IN  /\ pc' = IF raises THEN "crashed" ELSE "done"
           /\ exc' = IF raises THEN "TypeError" ELSE exc
    /\ log' = log \o (IF display_group_diff THEN <<"print_group_diff">> ELSE <<>>)
                  \o (IF display_group_diff /\ groups_diff = None
                      THEN <<>> ELSE <<"print_devices_diff">>)
    /\ UNCHANGED <<buildVars, desired_devices, desired_groups, current_devices,
                   current_groups, desired_group_description, current_in,
                   devices_diff, groups_diff, cmd, display_group_diff, njobs, job,
                   job_outputs, failed, syncVars>>

Next ==
    \/ LookupCurrentIseConfig
    \/ ProcessJob
    \/ DiffConfigs
    \/ SyncGroups
    \/ SyncDevices
    \/ PrintDiffs

Spec == Init /\ [][Next]_vars

\* ------------------------------------------------------------ SpecLookup
\* get_desired_devices for one job: the lookup in NetBox, then the records.
\* NetBox ids are modelled by the names they stand for.

\* the site, role, device type and tenant a NetBox record is filed under
SiteOf(o) == o.site
RoleOf(o) == IF IsDevice(o) THEN o.device_role ELSE o.role
NamesOf(objects) == [i \in DOMAIN objects |-> objects[i].name]

\* does the object pass the filter key = value of a NetBox query
Matches(o, key, value) ==
    CASE key = "name" -> o.name \in SeqToSet(value)
      [] key = "model" -> o.model \in SeqToSet(value)
      [] key = "vm_role" -> o.vm_role = value
      [] key = "site_id" -> SiteOf(o) # None /\ SiteOf(o).name \in SeqToSet(value)
      [] key = "role_id" -> RoleOf(o) # None /\ RoleOf(o).name \in SeqToSet(value)
      [] key = "device_type_id" -> o.device_type.model \in SeqToSet(value)
      [] key = "tenant_id" -> o.tenant # None /\ o.tenant.name \in SeqToSet(value)
      [] OTHER -> TRUE

\* netbox.py lines 37-54: all the objects when the query is empty, else those
\* that pass every filter, as a list
query_netbox(objects, query) ==
    IF DOMAIN query = {} THEN objects
    ELSE SelectSeq(objects, LAMBDA o : \A k \in DOMAIN query : Matches(o, k, query[k]))

\* one filter of a query: present when the job lists something
Filter(listed, key, ids) == IF Len(listed) > 0 THEN key :> ids ELSE <<>>

\* netbox.py lines 83-153.  nb: what the server holds; an unreachable server
\* makes the first query raise.  Line 140 reads vm_query["role_id"], a
\* KeyError when the key was never set.  Every exception is caught at line 150.
lookup_nb_devices(nb, sites, device_types, device_roles, tenants, status) ==
    LET site_ids == NamesOf(query_netbox(nb.sites, [name |-> sites]))
        type_ids == [i \in DOMAIN query_netbox(nb.device_types, [model |-> device_types])
                        |-> query_netbox(nb.device_types, [model |-> device_types])[i].model]
        role_ids == NamesOf(query_netbox(nb.device_roles, [name |-> device_roles]))
        vm_role_ids == NamesOf(query_netbox(nb.device_roles,
                                            [name |-> device_roles, vm_role |-> TRUE]))
        tenant_ids == NamesOf(query_netbox(nb.tenants, [name |-> tenants]))
        device_query == Filter(sites, "site_id", site_ids)
                        @@ Filter(device_types, "device_type_id", type_ids)
                        @@ Filter(device_roles, "role_id", role_ids)
                        @@ Filter(tenants, "tenant_id", tenant_ids)
                        @@ Filter(status, "status", status)
                        @@ ("has_primary_ip" :> "True")
        vm_query == Filter(sites, "site_id", site_ids)
                    @@ Filter(device_roles, "role_id", vm_role_ids)
                    @@ Filter(tenants, "tenant_id", tenant_ids)
                    @@ Filter(status, "status", status)
                    @@ ("has_primary_ip" :> "True")
    IN  IF ~nb.reachable THEN [status |-> FALSE, result |-> "ConnectionError"]
        ELSE IF "role_id" \notin DOMAIN vm_query
        THEN [status |-> FALSE, result |-> "KeyError"]
        ELSE [status |-> TRUE,
              devices |-> query_netbox(nb.devices, device_query),
              vms |-> IF Len(vm_query["role_id"]) > 0
                      THEN query_netbox(nb.vms, vm_query)
                      ELSE <<>>]

\* a role of NetBox, which virtual machines may or may not take
NbRole(text, vm_role) == [name |-> text, vm_role |-> vm_role]

\* the servers of the model: sites a and b, device type a, role a, no tenant;
\* up to two devices and two virtual machines
NetBoxServers ==
    {[reachable |-> r,
      sites |-> <<Named(Plain), Named(<<"b">>)>>,
      device_types |-> <<[model |-> Plain]>>,
      device_roles |-> <<NbRole(Plain, v)>>,
      tenants |-> <<>>,
      devices |-> d,
      vms |-> m] :
        r \in BOOLEAN, v \in BOOLEAN,
        d \in {<<>>, <<NbD1>>, <<NbD1, NbD1Moved>>},
        m \in {<<>>, <<NbD2>>, <<NbD2, NbVmD1>>}}

\* the filters of a job: lists of names the server knows, or nothing
NetBoxQueries ==
    {[sites |-> s, device_types |-> t, device_roles |-> r,
      tenants |-> <<>>, status |-> <<>>] :
        s \in {<<>>, <<Plain>>, <<<<"b">>>>},
        t \in {<<>>, <<Plain>>},
        r \in {<<>>, <<Plain>>}}

InitLookup ==
    /\ pc = "call_get_desired_devices"
    /\ nb_query \in NetBoxQueries
    /\ netbox \in NetBoxServers
    /\ nb_lookup = None
    /\ record = None /\ ise_device = None
    /\ secrets = [tacacs |-> None, radius |-> Secret("set", "r1")]
    /\ input_name = <<>> /\ cleaned_name = <<>>
    /\ Idle
    /\ NoCommand /\ NoPages

\* cli_utils.py lines 150-206: the lookup, then one record per device and per
\* virtual machine; netbox_devices["devices"] of a failed lookup raises KeyError
CallGetDesiredDevices ==
    /\ pc = "call_get_desired_devices"
    /\ LET found == lookup_nb_devices(netbox, nb_query.sites, nb_query.device_types,
                                      nb_query.device_roles, nb_query.tenants,
                                      nb_query.status)
       IN  /\ nb_lookup' = found
           /\ IF found.status
              THEN /\ desired_devices' = get_desired_devices(found, secrets.tacacs,
                                                             secrets.radius)
                   /\ pc' = "returned"
                   /\ exc' = exc
              ELSE /\ desired_devices' = desired_devices
                   /\ pc' = "raised"
                   /\ exc' = "KeyError"
    /\ UNCHANGED <<buildVars, desired_groups, current_devices, current_groups,
                   desired_group_description, current_in, devices_diff, groups_diff,
                   runVars, nb_query, netbox, pageVars>>

NextLookup == CallGetDesiredDevices

SpecLookup == InitLookup /\ [][NextLookup]_vars

\* ------------------------------------------------------------- SpecPages
\* the paginated lookups lookup_groups and lookup_ise_devices of both
\* adapters, against a server that holds the entries 1..total and reports
\* `total` in every page response

\* the most entries a server of the model holds
MaxTotal == 41

\* ise.py lines 64 and 170, ciscosdk_ise.py lines 63 and 171: the page size
size == 20

\* the smaller of two numbers
Least(a, b) == IF a <= b THEN a ELSE b

\* the entries the response to get(size, page p) lists
resources(p) == ((p - 1) * size + 1)..Least(p * size, total)

\* the condition of the while loops (ise.py lines 65 and 171, ciscosdk_ise.py
\* lines 64 and 172)
more_pages(p) == p = 0 \/ total > p * size

\* the keys one page adds to the dictionary.  lookup_groups stores every
\* listed group (ise.py line 73, ciscosdk_ise.py line 70); ise.py line 187
\* stores what get_device returned under every listed name; ciscosdk_ise.py
\* lines 192-193 store a device only when its detail response is not empty
stored(fn, p) ==
    IF fn.module = "ciscosdk_ise" /\ fn.kind = "lookup_ise_devices"
    THEN resources(p) \ {detail_empty}
    ELSE resources(p)

LookupFunctions ==
    {[module |-> m, kind |-> k] : m \in {"ise", "ciscosdk_ise"},
                                  k \in {"lookup_groups", "lookup_ise_devices"}}

InitPages ==
    /\ pc = "paging"
    /\ lookup_fn \in LookupFunctions
    /\ total \in 0..MaxTotal
    /\ fail_at \in 0..(MaxTotal \div size + 1)
    /\ detail_empty \in (IF lookup_fn.kind = "lookup_ise_devices" /\ total > 0
                         THEN {0, 1} ELSE {0})
    /\ page = 0 /\ requested = <<>> /\ collected = {}
    /\ lookup_result = None
    /\ record = None /\ secrets = None /\ ise_device = None
    /\ input_name = <<>> /\ cleaned_name = <<>>
    /\ Idle
    /\ NoCommand /\ NoLookup

\* one turn of the while loop: the next page is requested; a failed request
\* returns False, a successful one adds its entries
RequestPage ==
    /\ pc = "paging"
    /\ more_pages(page)
    /\ page' = page + 1
    /\ requested' = Append(requested, page + 1)
    /\ IF fail_at = page + 1
       THEN /\ lookup_result' = False
            /\ pc' = "lookup_ended"
            /\ UNCHANGED collected
       ELSE /\ collected' = collected \cup stored(lookup_fn, page + 1)
            /\ UNCHANGED <<pc, lookup_result>>
    /\ UNCHANGED <<exc, buildVars, desired_devices, desired_groups, current_devices,
                   current_groups, desired_group_description, current_in,
                   devices_diff, groups_diff, runVars, lookupVars, lookup_fn, total,
                   fail_at, detail_empty>>

\* the loop condition is false: the dictionary is returned
ReturnLookup ==
    /\ pc = "paging"
    /\ ~more_pages(page)
    /\ lookup_result' = [keys |-> collected]
    /\ pc' = "lookup_ended"
    /\ UNCHANGED <<exc, buildVars, desired_devices, desired_groups, current_devices,
                   current_groups, desired_group_description, current_in,
                   devices_diff, groups_diff, runVars, lookupVars, lookup_fn, total,
                   fail_at, detail_empty, page, requested, collected>>

NextPages == RequestPage \/ ReturnLookup

\* the loop runs on: a step that is possible is taken
SpecPages == InitPages /\ [][NextPages]_vars /\ WF_vars(NextPages)

\* ================================================================ claims
ForbiddenChars == {"/", "(", ")"}

\* the result of a call of diff_ise_groups / diff_ise_devices that returned
GroupsReturned == pc = "returned" /\ groups_diff # None
DevicesReturned == pc = "returned" /\ devices_diff # None

\* C1: diff_ise_groups returns missing = desired minus the current keys, extra =
\* the current keys minus desired, and puts each name of both in correct exactly
\* when the current description equals the desired one, else in incorrect.
C1_DiffGroupsContract ==
    GroupsReturned =>
        LET keys == DOMAIN current_groups.at
        IN  /\ groups_diff.missing = desired_groups \ keys
            /\ groups_diff.extra = keys \ desired_groups
            /\ groups_diff.correct \cup groups_diff.incorrect
                   = desired_groups \cap keys
            /\ \A g \in desired_groups \cap keys :
                  /\ g \in groups_diff.correct
                        <=> current_groups.at[g].description = desired_group_description
                  /\ g \in groups_diff.incorrect
                        <=> current_groups.at[g].description # desired_group_description

C1_Witness ==
    /\ GroupsReturned
    /\ groups_diff.correct # {} /\ groups_diff.incorrect # {}
    /\ groups_diff.missing # {} /\ groups_diff.extra # {}

\* C2: the categories of both diffs are pairwise disjoint, every desired name is
\* in exactly one of correct / incorrect / missing, and every group that only
\* the current state has is in extra.
PairwiseDisjoint(a, b, c, d) ==
    /\ a \cap b = {} /\ a \cap c = {} /\ a \cap d = {}
    /\ b \cap c = {} /\ b \cap d = {} /\ c \cap d = {}

C2_PartitionComplete ==
    /\ GroupsReturned =>
          /\ PairwiseDisjoint(groups_diff.correct, groups_diff.incorrect,
                              groups_diff.missing, groups_diff.extra)
          /\ groups_diff.correct \cup groups_diff.incorrect \cup groups_diff.missing
                 = desired_groups
          /\ Cardinality(groups_diff.correct) + Cardinality(groups_diff.incorrect)
                 + Cardinality(groups_diff.missing) = Cardinality(desired_groups)
          /\ (DOMAIN current_groups.at) \ desired_groups \subseteq groups_diff.extra
    /\ DevicesReturned =>
          /\ PairwiseDisjoint(DOMAIN devices_diff.correct, DOMAIN devices_diff.incorrect,
                              DOMAIN devices_diff.missing, DOMAIN devices_diff.extra)
          /\ DOMAIN devices_diff.correct \cup DOMAIN devices_diff.incorrect
                 \cup DOMAIN devices_diff.missing = DOMAIN desired_devices
          /\ Cardinality(DOMAIN devices_diff.correct)
                 + Cardinality(DOMAIN devices_diff.incorrect)
                 + Cardinality(DOMAIN devices_diff.missing)
                 = Cardinality(DOMAIN desired_devices)

C2_Witness ==
    /\ DevicesReturned
    /\ DOMAIN devices_diff.incorrect # {}
    /\ DOMAIN devices_diff.missing # {}

\* the entry of a desired device in the result, whatever its category
Category(n) ==
    CASE n \in DOMAIN devices_diff.correct -> "correct"
      [] n \in DOMAIN devices_diff.incorrect -> "incorrect"
      [] n \in DOMAIN devices_diff.missing -> "missing"
      [] OTHER -> "none"

Info(n) == devices_diff[Category(n)][n]

\* C3: a device with a non-empty field diff against its paired current record is
\* incorrect; otherwise one with no paired record is missing; otherwise one whose
\* group sub-diff has a missing or an extra entry is incorrect; otherwise it is
\* correct.  A paired device whose description differs is incorrect.
C3_ClassificationOrder ==
    DevicesReturned =>
        \A n \in DOMAIN desired_devices :
            /\ Category(n) # "none"
            /\ LET info == Info(n)
                   paired == info.current # None
                   fields == paired /\ info.changes.paths # {}
                   groups == info.group_changes.missing # {}
                             \/ info.group_changes.extra # {}
               IN  /\ info.desired = desired_devices[n]
                   /\ paired => info.changes # None
                   /\ Category(n) = IF fields THEN "incorrect"
                                    ELSE IF ~paired THEN "missing"
                                    ELSE IF groups THEN "incorrect"
                                    ELSE "correct"
                   /\ (paired /\ info.current["description"] # info.desired["description"])
                          => Category(n) = "incorrect"

C3_Witness ==
    /\ DevicesReturned
    /\ \E n \in DOMAIN devices_diff.incorrect :
          LET info == devices_diff.incorrect[n]
          IN  /\ info.changes.paths = {<<"description">>}
              /\ info.group_changes.missing = {}
              /\ info.group_changes.extra = {}
              /\ info.group_changes.correct # {}

\* the current devices that have the address of the desired device n
SameIp(n) ==
    {m \in DOMAIN current_devices.at :
        FirstIp(current_devices.at[m]) = FirstIp(desired_devices[n])}

\* a desired device known to ISE under another name only
Renamed(n) == n \notin DOMAIN current_devices.at /\ SameIp(n) # {}

\* cur and des agree on every field but the name and the fields the diff excludes
SameButName(cur, des) ==
    DeepDiff(DropKey(cur, "name"), DropKey(des, "name")).paths = {}

SameGroups(cur, des) ==
    SeqToSet(cur["NetworkDeviceGroupList"]) = SeqToSet(des["NetworkDeviceGroupList"])

\* C4 as stated: a renamed device is paired with the current device that has its
\* address and, when every other field and the group lists agree, is correct.
C4_RenameIsCorrect ==
    DevicesReturned =>
        \A n \in DOMAIN desired_devices :
            Renamed(n) =>
                /\ Category(n) # "none"
                /\ Info(n).current # None
                /\ Info(n).current["name"] \in SameIp(n)
                /\ (SameButName(Info(n).current, desired_devices[n])
                    /\ SameGroups(Info(n).current, desired_devices[n]))
                       => Category(n) = "correct"

\* C4 amended: a renamed device is paired with the current device that has its
\* address (the last one in iteration order) and is classified incorrect: the
\* field diff holds the name.
C4_RenameIsIncorrect ==
    DevicesReturned =>
        \A n \in DOMAIN desired_devices :
            Renamed(n) =>
                /\ Category(n) = "incorrect"
                /\ Info(n).current # None
                /\ Info(n).current = current_ips(current_devices)[FirstIp(desired_devices[n])]
                /\ Info(n).current["name"] \in SameIp(n)
                /\ <<"name">> \in Info(n).changes.paths

C4_Witness ==
    /\ DevicesReturned
    /\ \E n \in DOMAIN desired_devices :
          /\ Renamed(n)
          /\ Category(n) = "incorrect"
          /\ Info(n).current["name"] = "OLD-D1"
          /\ Info(n).changes.paths = {<<"name">>}
          /\ SameButName(Info(n).current, desired_devices[n])
          /\ SameGroups(Info(n).current, desired_devices[n])

\* the call of diff_ise_devices is over (it returned or it raised)
DevicesCalled == current_in # None

\* the current devices handed over are the desired devices, copied unchanged
CopiedFromDesired ==
    /\ DOMAIN current_in.at = DOMAIN desired_devices
    /\ \A n \in DOMAIN desired_devices : current_in.at[n] = desired_devices[n]

\* C5: diffing desired devices against an unchanged copy of themselves yields no
\* missing and no incorrect device and only empty group sub-diffs.
C5_Idempotence ==
    (DevicesCalled /\ CopiedFromDesired) =>
        /\ exc = "none"
        /\ devices_diff # None
        /\ DOMAIN devices_diff.missing = {}
        /\ DOMAIN devices_diff.incorrect = {}
        /\ \A n \in DOMAIN devices_diff.correct :
              /\ devices_diff.correct[n].group_changes.missing = {}
              /\ devices_diff.correct[n].group_changes.extra = {}

\* C6: diff_ise_devices returns a result for every current device mapping.
C6_DiffDevicesNeverRaises ==
    DevicesCalled => (exc = "none" /\ devices_diff # None)

\* the calls of the log that are op
Count(op) == Cardinality({i \in DOMAIN log : log[i] = op})

Reconcilers == {"diff_ise_devices", "diff_ise_groups"}
Writes == {"update_device_group", "add_device_group", "update_device", "add_device"}

\* C7: once a lookup of the current devices, of the current groups or of a job's
\* inventory has failed, no reconciler is started and no create or update is
\* issued.
C7_AbortBeforeReconcile ==
    failed # {} => \A i \in DOMAIN log : log[i] \notin Reconcilers \cup Writes

\* the command is past diff_configs
Reconciled == pc \in {"sync_groups", "sync_devices", "print_diffs", "done"}

\* C8: the jobs are processed one after another, and each reconciler is invoked
\* exactly once, after the last job's results were merged.
C8_ReconcileOnceAfterJobs ==
    /\ Len(job_outputs) = job - 1
    /\ \A i, j \in DOMAIN log :
          (log[i] = "lookup_nb_devices" /\ log[j] \in Reconcilers) => i < j
    /\ (\E i \in DOMAIN log : log[i] \in Reconcilers) => Len(job_outputs) = njobs
    /\ Reconciled => \A op \in Reconcilers : Count(op) = 1

\* the jobs that produced the name n
Producers(n) == {i \in DOMAIN job_outputs : n \in DOMAIN job_outputs[i].devices}

Max(S) == CHOOSE x \in S : \A y \in S : y <= x

\* C9: the merged desired devices hold, for each name, the record of the last job
\* that produced the name, a collision raises no error, and the merged groups
\* are the union of the jobs' groups.
C9_LastWriteWins ==
    /\ DOMAIN desired_devices = UNION {DOMAIN job_outputs[i].devices : i \in DOMAIN job_outputs}
    /\ \A n \in DOMAIN desired_devices :
          desired_devices[n] = job_outputs[Max(Producers(n))].devices[n]
    /\ desired_groups = UNION {job_outputs[i].groups : i \in DOMAIN job_outputs}
    /\ (pc = "crashed" /\ Count("diff_configs") = 0) => "lookup_nb_devices" \in failed

\* two jobs produced different records for D1; the merged one is the second
C9_Witness ==
    /\ Len(job_outputs) = 2
    /\ Producers("D1") = {1, 2}
    /\ job_outputs[1].devices["D1"] # job_outputs[2].devices["D1"]
    /\ job_outputs[1].groups # job_outputs[2].groups
    /\ desired_devices["D1"] = job_outputs[2].devices["D1"]
    /\ pc = "done"

\* C10: no group name of a built device holds '/', '(' or ')'.
C10_GroupNamesClean ==
    (pc = "returned" /\ ise_device # None) =>
        \A i \in DOMAIN ise_device["NetworkDeviceGroupList"] :
            ~HasChar(ise_device["NetworkDeviceGroupList"][i], ForbiddenChars)

\* ise_device_from_netbox has returned the device built from record
Built == pc = "returned" /\ ise_device # None

\* the group names of the built device, in order
BuiltGroups == ise_device["NetworkDeviceGroupList"]

VmWithoutRole == IsVM(record) /\ record.role = None

\* C11: for a virtual machine without a role the built group list has four
\* entries and none of them starts with 'Device Role#'.
C11_NoRoleGroupWithoutRole ==
    (Built /\ VmWithoutRole) =>
        /\ Len(BuiltGroups) = 4
        /\ \A i \in DOMAIN BuiltGroups : Head(BuiltGroups[i]) # "Device Role"

NoEmptySegment(g) ==
    /\ g # <<>>
    /\ Head(g) # "#"
    /\ g[Len(g)] # "#"
    /\ \A i \in 1..(Len(g) - 1) : ~(g[i] = "#" /\ g[i + 1] = "#")

\* the tenant group has the form that the record's tenant calls for
TenantGroupForms ==
    BuiltGroups[4] =
        IF record.tenant = None THEN <<"Tenant", "#", "Tenant">>
        ELSE IF record.tenant.group = None
        THEN <<"Tenant", "#", "Tenant", "#">> \o record.tenant.name
        ELSE <<"Tenant", "#", "Tenant", "#">> \o record.tenant.group.name
                 \o <<"#">> \o record.tenant.name

\* the location group of a physical device without a rack ends with the site
RacklessLocation ==
    (IsDevice(record) /\ record.rack = None) =>
        BuiltGroups[1] = <<"Location", "#", "All Locations", "#">> \o record.site.name

\* C13: no built group name has an empty segment; the tenant group is always
\* there and is 'Tenant#Tenant', 'Tenant#Tenant#<tenant>' or
\* 'Tenant#Tenant#<tenant-group>#<tenant>'; the location group of a physical
\* device without a rack is 'Location#All Locations#<site>'.
C13_OptionalSegmentsOmitted ==
    Built =>
        /\ \A i \in DOMAIN BuiltGroups : NoEmptySegment(BuiltGroups[i])
        /\ TenantGroupForms
        /\ RacklessLocation

\* the forms of the tenant group and of the rack-less location taken alone
C13_FormsAlone == Built => (TenantGroupForms /\ RacklessLocation)

\* the name with every '/' turned into '-' and every '(' and ')' left out
RECURSIVE Canonical(_)
Canonical(s) ==
    IF s = <<>> THEN <<>>
    ELSE (CASE Head(s) = "/" -> <<"-">>
            [] Head(s) \in {"(", ")"} -> <<>>
            [] OTHER -> <<Head(s)>>) \o Canonical(Tail(s))

\* C14: ise_name_cleanup returns, for every name, the name with every '/'
\* replaced by '-' and every '(' and ')' removed; what it returns holds none of
\* '/', '(' and ')', and cleaning it again changes nothing.
C14_CleanupIdempotent ==
    /\ pc = "cleaned" => cleaned_name = Canonical(input_name)
    /\ pc \in {"cleaned", "cleaned_again"} => ~HasChar(cleaned_name, ForbiddenChars)
    /\ pc = "cleaned_again" => cleaned_name = input_name

\* a name holding all three characters was cleaned
C14_Witness ==
    /\ pc = "cleaned"
    /\ input_name = <<"(", "/", ")">>
    /\ cleaned_name = <<"-">>

\* the current devices as the call left them, in iteration order
CurrentAt(i) == current_devices.at[current_devices.keys[i]]

\* the last current device, in iteration order, that has the address ip
IsLastWithIp(i, ip) ==
    /\ FirstIp(CurrentAt(i)) = ip
    /\ \A j \in DOMAIN current_devices.keys : FirstIp(CurrentAt(j)) = ip => j <= i

\* the desired device n has the name of one current device and the address of
\* another, which is at position i
NameAndIpDisagree(n, i) ==
    /\ n \in DOMAIN current_devices.at
    /\ current_devices.keys[i] # n
    /\ IsLastWithIp(i, FirstIp(desired_devices[n]))

\* C15: a desired device with the name of current record A and the address of
\* another current record B is paired with B; its field diff and its group
\* sub-diff are taken against B.
C15_IpPairingFirst ==
    DevicesReturned =>
        \A n \in DOMAIN desired_devices : \A i \in DOMAIN current_devices.keys :
            NameAndIpDisagree(n, i) =>
                LET b == CurrentAt(i)
                    info == Info(n)
                    dg == SeqToSet(desired_devices[n]["NetworkDeviceGroupList"])
                    bg == SeqToSet(b["NetworkDeviceGroupList"])
                IN  /\ info.current = b
                    /\ info.current # current_devices.at[n]
                    /\ info.changes = DeepDiff(b, desired_devices[n])
                    /\ <<"name">> \in info.changes.paths
                    /\ info.group_changes =
                           [correct |-> dg \cap bg, missing |-> dg \ bg, extra |-> bg \ dg]

\* D1 is desired at 10.0.0.5; ISE holds D1 at 10.0.0.6, in sync but for the
\* address, and OLD-D1 at 10.0.0.5 with another tenant group
C15_Witness ==
    /\ DevicesReturned
    /\ "D1" \in DOMAIN desired_devices
    /\ DOMAIN current_devices.at = {"D1", "OLD-D1"}
    /\ FirstIp(current_devices.at["D1"]) = <<"10.0.0.6">>
    /\ FirstIp(current_devices.at["OLD-D1"]) = <<"10.0.0.5">>
    /\ Info("D1").current = current_devices.at["OLD-D1"]
    /\ Info("D1").group_changes.extra = {OtherGroup}

\* the desired devices paired, through its address, with the current device at
\* position i
PairedByIp(i) ==
    {n \in DOMAIN desired_devices :
        /\ FirstIp(desired_devices[n]) = FirstIp(CurrentAt(i))
        /\ Info(n).current = CurrentAt(i)}

\* C16: of the desired devices that share the address of a current device, one
\* only, the last, is paired with it through the address; no current record is
\* paired by address with two desired devices.
C16_LastIpMatchWins ==
    DevicesReturned =>
        \A i \in DOMAIN current_devices.keys : Cardinality(PairedByIp(i)) <= 1

\* the current device at position i has neither the name nor the address of a
\* desired device
OnlyCurrent(i) ==
    /\ current_devices.keys[i] \notin DOMAIN desired_devices
    /\ \A n \in DOMAIN desired_devices :
          FirstIp(desired_devices[n]) # FirstIp(CurrentAt(i))

\* C17: the 'extra' category of the device diff is empty, and a device that only
\* ISE holds is in no category, neither under its name nor as the current
\* record of an entry.
C17_NoExtraDevices ==
    DevicesReturned =>
        /\ DOMAIN devices_diff.extra = {}
        /\ \A i \in DOMAIN current_devices.keys :
              OnlyCurrent(i) =>
                  /\ \A c \in {"correct", "incorrect", "missing", "extra"} :
                        current_devices.keys[i] \notin DOMAIN devices_diff[c]
                  /\ \A n \in DOMAIN desired_devices : Info(n).current # CurrentAt(i)

\* D1 is desired and in ISE; ISE also holds OLD-D1 at another address
C17_Witness ==
    /\ DevicesReturned
    /\ DOMAIN desired_devices = {"D1"}
    /\ DOMAIN current_devices.at = {"D1", "OLD-D1"}
    /\ \E i \in DOMAIN current_devices.keys :
          current_devices.keys[i] = "OLD-D1" /\ OnlyCurrent(i)
    /\ DOMAIN devices_diff.correct = {"D1"}

\* the authenticationSettings of a current record, as ISE reported it, has no
\* radiusSharedSecret, or an empty one and no networkProtocol
UnconfiguredForm(raw) ==
    LET auth == raw["authenticationSettings"]
    IN  \/ "radiusSharedSecret" \notin DOMAIN auth
        \/ auth["radiusSharedSecret"] = <<>> /\ "networkProtocol" \notin DOMAIN auth

AuthPath == <<"authenticationSettings">>

\* C18: a current record in the unconfigured form loses its
\* authenticationSettings and shows no difference there against a desired
\* record built without a RADIUS secret; any other current record keeps its
\* block, which is compared with the desired one.
C18_RadiusNormalised ==
    DevicesReturned =>
        \A k \in DOMAIN current_in.at :
            LET raw == current_in.at[k]
                after == current_devices.at[k]
            IN  IF UnconfiguredForm(raw)
                THEN /\ "authenticationSettings" \notin DOMAIN after
                     /\ \A n \in DOMAIN desired_devices :
                           (/\ Info(n).current = after
                            /\ "authenticationSettings" \notin DOMAIN desired_devices[n])
                               => AuthPath \notin Info(n).changes.paths
                ELSE /\ after = raw
                     /\ \A n \in DOMAIN desired_devices :
                           Info(n).current = after =>
                               (AuthPath \in Info(n).changes.paths <=>
                                   \/ "authenticationSettings" \notin DOMAIN desired_devices[n]
                                   \/ desired_devices[n]["authenticationSettings"]
                                          # raw["authenticationSettings"])

\* ISE reports D1 with RADIUS disabled, D1 is desired without a RADIUS secret,
\* and D1 is found correct
C18_Witness ==
    /\ DevicesReturned
    /\ "D1" \in DOMAIN current_in.at
    /\ current_in.at["D1"]["authenticationSettings"] = radius_disabled
    /\ "D1" \in DOMAIN devices_diff.correct
    /\ "authenticationSettings" \notin DOMAIN desired_devices["D1"]
    /\ "authenticationSettings" \notin DOMAIN devices_diff.correct["D1"].current

\* a device record without the fields the field diff is said to ignore
Strip(r) ==
    LET top == [k \in DOMAIN r \ {"id", "link", "NetworkDeviceGroupList"} |-> r[k]]
    IN  IF "tacacsSettings" \in DOMAIN top
        THEN [top EXCEPT !["tacacsSettings"] =
                 [k \in DOMAIN @ \ {"previousSharedSecret", "previousSharedSecretExpiry"}
                     |-> @[k]]]
        ELSE top

\* C19: the field diff of a paired device is empty exactly when the current and
\* the desired record agree on every field other than id, link, the group list
\* and the previousSharedSecret and previousSharedSecretExpiry of tacacsSettings.
C19_ExcludedFields ==
    DevicesReturned =>
        \A n \in DOMAIN desired_devices :
            Info(n).current # None =>
                (Info(n).changes.paths = {} <=>
                    Strip(Info(n).current) = Strip(desired_devices[n]))

\* D1 is paired with a record that differs from it in id, link, the group list
\* and the previous TACACS secret only; its field diff is empty
C19_Witness ==
    /\ DevicesReturned
    /\ "D1" \in DOMAIN devices_diff.correct
    /\ LET cur == devices_diff.correct["D1"].current
       IN  /\ {"id", "link", "tacacsSettings"} \subseteq DOMAIN cur
           /\ "previousSharedSecret" \in DOMAIN cur["tacacsSettings"]
           /\ "id" \notin DOMAIN desired_devices["D1"]
           /\ "previousSharedSecret" \notin DOMAIN desired_devices["D1"]["tacacsSettings"]
    /\ devices_diff.correct["D1"].changes.paths = {}

\* sync_devices was called with a devices diff
SyncDevicesCalled == Count("sync_devices") = 1 /\ devices_diff # None

\* a result entry that records a failure: success flag down, with a message
FailureEntry(e) ==
    /\ {"success", "response"} \subseteq DOMAIN e
    /\ e["success"] = FALSE

\* C20: whatever write of sync_devices fails, the batch is carried through:
\* every incorrect device gets its update and every missing device its create,
\* each has its result entry, and the entry of a failed write records the
\* failure.
C20_WriteFailuresCaptured ==
    SyncDevicesCalled =>
        /\ pc = "done"
        /\ devices_sync # None
        /\ Count("update_device") = Cardinality(DOMAIN devices_diff.incorrect)
        /\ Count("add_device") = Cardinality(DOMAIN devices_diff.missing)
        /\ DOMAIN devices_sync.updated = DOMAIN devices_diff.incorrect
        /\ DOMAIN devices_sync.created = DOMAIN devices_diff.missing
        /\ \A n \in DOMAIN devices_diff.incorrect :
              write_outcome[n] # "ok" => FailureEntry(devices_sync.updated[n])
        /\ \A n \in DOMAIN devices_diff.missing :
              write_outcome[n] # "ok" => FailureEntry(devices_sync.created[n])

\* the same with no write raising: the library returns a result for every write
C20_WhenNoWriteRaises ==
    (\A n \in DOMAIN write_outcome : write_outcome[n] # "raised")
        => C20_WriteFailuresCaptured

\* the same for the pyiseers adapter with no write raising
C20_LegacyWhenNoWriteRaises ==
    ise_module = "ise" => C20_WhenNoWriteRaises


\* ---------------------------------------------------------------------------
\* the positions of `writes` that hold a write of a group
GroupWrites == {i \in DOMAIN writes : writes[i].op \in
                    {"update_device_group", "add_device_group",
                     "delete_device_group"}}

\* the id a group update is addressed to
GroupIdOf(w) == IF ise_module = "ise" THEN w.args.device_group_oid ELSE w.args.id

SyncGroupsCalled == groups_diff # None /\ "sync_groups" \in SeqToSet(log)

\* the group writes of kind op sent for group g
GroupWritesFor(op, g) == {i \in GroupWrites : writes[i].op = op /\ writes[i].key = g}

DeviceWrites == {i \in DOMAIN writes : writes[i].op \in {"update_device", "add_device"}}

\* the device configuration a write carries: the payload of the pyiseers call,
\* the keyword arguments of the SDK call under the keys of an ISE device
Carried(w) ==
    IF ise_module = "ise" THEN w.args.device_payload
    ELSE [name |-> w.args.name,
          description |-> w.args.description,
          profileName |-> w.args.profile_name,
          coaPort |-> w.args.coa_port,
          NetworkDeviceIPList |-> w.args.network_device_iplist,
          NetworkDeviceGroupList |-> w.args.network_device_group_list]
         @@ (IF w.args.tacacs_settings # None
             THEN "tacacsSettings" :> w.args.tacacs_settings ELSE <<>>)
         @@ (IF w.args.authentication_settings # None
             THEN "authenticationSettings" :> w.args.authentication_settings
             ELSE <<>>)

DeviceWritesFor(op, n) == {i \in DeviceWrites : writes[i].op = op /\ writes[i].key = n}

\* what C22 says of the writes, given what "the desired configuration" of an
\* update is compared on
DeviceWritesCarry(Same(_, _)) ==
    (devices_diff # None /\ "sync_devices" \in SeqToSet(log)) =>
        /\ \A i \in DeviceWrites :
              \/ /\ writes[i].op = "update_device"
                 /\ writes[i].key \in DOMAIN devices_diff.incorrect
                 /\ writes[i].args.name =
                        devices_diff.incorrect[writes[i].key].current["name"]
                 /\ Same(Carried(writes[i]),
                         devices_diff.incorrect[writes[i].key].desired)
              \/ /\ writes[i].op = "add_device"
                 /\ writes[i].key \in DOMAIN devices_diff.missing
                 /\ Carried(writes[i]) = devices_diff.missing[writes[i].key].desired
        /\ \A i, j \in DeviceWrites : writes[i].key = writes[j].key => i = j
        /\ devices_sync # None =>
              /\ \A n \in DOMAIN devices_diff.incorrect :
                    Cardinality(DeviceWritesFor("update_device", n)) = 1
              /\ \A n \in DOMAIN devices_diff.missing :
                    Cardinality(DeviceWritesFor("add_device", n)) = 1
              /\ DOMAIN devices_sync.updated = DOMAIN devices_diff.incorrect
              /\ DOMAIN devices_sync.created = DOMAIN devices_diff.missing

\* C22: in every call of sync_devices, by either adapter, every write sent is
\* an update of an incorrect device, addressed to the name of the paired
\* current record and carrying the desired configuration, or a create of a
\* missing device carrying the desired configuration; no device is written
\* twice and nothing is sent for a correct device; when the call returns,
\* every incorrect device has had exactly one update and every missing device
\* exactly one create, and the keys of "updated" and "created" are the
\* incorrect and the missing names.
C22_DeviceWrites == DeviceWritesCarry(LAMBDA sent, desired : sent = desired)

\* the same with the name left out of what an update must carry: holds
C22_AllButTheName ==
    DeviceWritesCarry(LAMBDA sent, desired : DropKey(sent, "name") = DropKey(desired, "name"))

\* the same for the pyiseers adapter alone: holds
C22_LegacyDeviceWrites == ise_module = "ise" => C22_DeviceWrites

\* ---------------------------------------------------------------------------
\* the secret was given and has at least one character
NonEmptySecret(secret) == secret # None /\ Len(secret.str) > 0

\* C23: the record ise_device_from_netbox builds has the key tacacsSettings
\* exactly when the TACACS secret is non-empty and the key
\* authenticationSettings exactly when the RADIUS secret is non-empty (a
\* secret that is None or "" gives no key); each block holds its secret, and
\* the RADIUS block has key wrap disabled, DTLS not required and empty
\* key-encryption and message-authenticator keys.
C23_SecretBlocks ==
    Built =>
        /\ ("tacacsSettings" \in DOMAIN ise_device) <=> NonEmptySecret(secrets.tacacs)
        /\ ("authenticationSettings" \in DOMAIN ise_device)
               <=> NonEmptySecret(secrets.radius)
        /\ "tacacsSettings" \in DOMAIN ise_device =>
               ise_device["tacacsSettings"].sharedSecret = secrets.tacacs.str
        /\ "authenticationSettings" \in DOMAIN ise_device =>
               LET a == ise_device["authenticationSettings"]
               IN  /\ a.radiusSharedSecret = secrets.radius.str
                   /\ a.networkProtocol = "RADIUS"
                   /\ a.enableKeyWrap = FALSE
                   /\ a.dtlsRequired = FALSE
                   /\ a.keyEncryptionKey = <<>>
                   /\ a.messageAuthenticatorCodeKey = <<>>

\* a record built with an empty TACACS secret and a RADIUS secret: it has the
\* RADIUS block alone
C23_Witness ==
    /\ Built
    /\ secrets.tacacs = Str(<<>>) /\ NonEmptySecret(secrets.radius)
    /\ "tacacsSettings" \notin DOMAIN ise_device
    /\ "authenticationSettings" \in DOMAIN ise_device

\* ---------------------------------------------------------------------------
\* the loop over the jobs has ended
JobsDone == cmd # "none" /\ pc # "lookup_current_ise_config" /\ job > njobs

\* C24: once the loop over the jobs has ended, the merged set of desired
\* groups is exactly the set of the groups referenced by the devices of the
\* merged desired_devices mapping; a group that only an overwritten record
\* referenced is not in it.
C24_MergedGroupsOfMergedDevices ==
    JobsDone => desired_groups = set_of_ise_groups(desired_devices)

\* what holds instead: the merged set is the union of the sets of the jobs
C24_UnionOfJobs ==
    JobsDone => desired_groups = UNION {job_outputs[i].groups : i \in DOMAIN job_outputs}

\* ---------------------------------------------------------------------------
\* C25: in the sync command, the groups diff handed to sync_groups and the
\* devices diff handed to sync_devices are never None, and no run ends in the
\* TypeError of a reconcile step reading a None diff: with no desired device,
\* or with no current group, the run completes without a write.
C25_DiffsNeverNone ==
    cmd = "sync" =>
        /\ pc = "sync_groups" => groups_diff # None /\ devices_diff # None
        /\ pc = "sync_devices" => devices_diff # None
        /\ ~(pc = "crashed" /\ exc = "TypeError" /\ "sync_groups" \in SeqToSet(log))

\* what holds instead: the diffs are not None exactly when the jobs produced a
\* desired device and (for the groups) the appliance reported a group
C25_NoneWhenNothingToCompare ==
    (cmd = "sync" /\ pc = "sync_groups") =>
        /\ devices_diff = None <=> DOMAIN desired_devices = {}
        /\ groups_diff = None <=> (~DictTruthy(current_groups) \/ desired_groups = {})

\* ---------------------------------------------------------------------------
\* C26: in every result of diff_ise_devices, each entry under "incorrect" and
\* under "correct" has a paired current record, with a name; each entry under
\* "missing" has no current record, no field diff, and a group sub-diff whose
\* "missing" set is the whole set of the device's desired groups, "correct"
\* and "extra" being empty.
C26_EntriesAndTheirCurrent ==
    DevicesReturned =>
        /\ \A c \in {"incorrect", "correct"} : \A n \in DOMAIN devices_diff[c] :
              /\ devices_diff[c][n].current # None
              /\ "name" \in DOMAIN devices_diff[c][n].current
        /\ \A n \in DOMAIN devices_diff.missing :
              /\ devices_diff.missing[n].current = None
              /\ devices_diff.missing[n].changes = None
              /\ devices_diff.missing[n].group_changes =
                     [correct |-> {},
                      missing |-> SeqToSet(desired_devices[n]["NetworkDeviceGroupList"]),
                      extra |-> {}]

\* a result with a missing device beside an incorrect one
C26_Witness ==
    /\ DevicesReturned
    /\ DOMAIN devices_diff.missing # {}
    /\ DOMAIN devices_diff.incorrect # {}
    /\ \E n \in DOMAIN devices_diff.missing :
          devices_diff.missing[n].group_changes.missing # {}

\* ---------------------------------------------------------------------------
GroupOps == {"update_device_group", "add_device_group"}
DeviceOps == {"update_device", "add_device"}
DiffOps == {"diff_configs", "diff_ise_devices", "diff_ise_groups"}

\* in the log, every call of `first` comes before every call of `then`
Before(first, then) ==
    \A i, j \in DOMAIN log : (log[i] \in first /\ log[j] \in then) => i < j

\* C27: in the sync command, sync_devices is called only after sync_groups
\* has returned, every create or update of a group is sent before the first
\* create or update of a device, the diffs are computed once, before any
\* write, and no step that writes changes them.
C27_GroupsBeforeDevices ==
    /\ [](cmd = "sync" =>
            /\ "sync_devices" \in SeqToSet(log) => groups_sync # None
            /\ Before(GroupOps \cup {"sync_groups"}, DeviceOps \cup {"sync_devices"})
            /\ \A i \in GroupWrites, j \in DeviceWrites : i < j
            /\ Count("diff_configs") <= 1
            /\ Before(DiffOps, GroupOps \cup DeviceOps \cup {"sync_groups", "sync_devices"}))
    /\ [][(writes' # writes \/ writes # <<>>) =>
              UNCHANGED <<devices_diff, groups_diff>>]_vars

\* a run that ended after writing groups and then devices
C27_Witness ==
    /\ cmd = "sync" /\ pc = "done"
    /\ GroupWrites # {} /\ DeviceWrites # {}
    /\ Count("diff_configs") = 1

\* ---------------------------------------------------------------------------
\* diff_ise_devices has ended, by a return or by an exception
DevicesEnded == current_in # None /\ pc \in {"returned", "raised"}

\* C28: diff_ise_devices never changes its desired_devices argument, and the
\* only change it makes to its current_devices argument is the deletion of
\* the key authenticationSettings from records in the unconfigured form (no
\* radiusSharedSecret, or an empty one with no networkProtocol): the keys and
\* their order, every other record and every other field are as they were,
\* whether the call returns or raises; when it returns, every record in that
\* form has lost the key.
C28_FrameOfDiffDevices ==
    /\ [](DevicesEnded =>
            IF current_in = False THEN current_devices = False
            ELSE /\ current_devices.keys = current_in.keys
                 /\ DOMAIN current_devices.at = DOMAIN current_in.at
                 /\ \A k \in DOMAIN current_in.at :
                       LET raw == current_in.at[k]
                           after == current_devices.at[k]
                       IN  /\ \/ after = raw
                              \/ /\ "authenticationSettings" \in DOMAIN raw
                                 /\ UnconfiguredForm(raw)
                                 /\ after = DropKey(raw, "authenticationSettings")
                           /\ (pc = "returned" /\ UnconfiguredForm(raw)) =>
                                  "authenticationSettings" \notin DOMAIN after)
    /\ [][pc = "call_diff_ise_devices" => desired_devices' = desired_devices]_vars

\* a call that returned after deleting the key from one current record and
\* leaving another, with RADIUS configured, as it was
C28_Witness ==
    /\ DevicesEnded /\ pc = "returned"
    /\ \E k \in DOMAIN current_in.at : current_devices.at[k] # current_in.at[k]
    /\ \E k \in DOMAIN current_in.at :
          /\ current_devices.at[k] = current_in.at[k]
          /\ "authenticationSettings" \in DOMAIN current_in.at[k]

\* ---------------------------------------------------------------------------
\* get_desired_devices has ended for a job that lists no device role, on a
\* server that answers
EmptyRolesLookup ==
    /\ pc \in {"returned", "raised"} /\ nb_lookup # None
    /\ nb_query.device_roles = <<>> /\ netbox.reachable

\* the devices of the server that pass the filters of the job other than the
\* roles
MatchingOtherFilters ==
    SelectSeq(netbox.devices,
              LAMBDA o : /\ nb_query.sites # <<>> => o.site.name \in SeqToSet(nb_query.sites)
                         /\ nb_query.device_types # <<>> =>
                                o.device_type.model \in SeqToSet(nb_query.device_types))

\* C29: for a job whose device_roles filter is empty, lookup_nb_devices
\* returns status True, the devices that pass the other filters and no virtual
\* machine, and get_desired_devices builds the desired devices of the job
\* without raising.
C29_EmptyRolesLookup ==
    EmptyRolesLookup =>
        /\ nb_lookup.status
        /\ nb_lookup.devices = MatchingOtherFilters
        /\ nb_lookup.vms = <<>>
        /\ pc = "returned" /\ exc = "none"
        /\ DOMAIN desired_devices = {nb_lookup.devices[i].name : i \in DOMAIN nb_lookup.devices}

\* what happens instead: the lookup fails with the KeyError of the role ids,
\* and get_desired_devices raises
C29_EmptyRolesFail ==
    EmptyRolesLookup =>
        /\ ~nb_lookup.status /\ nb_lookup.result = "KeyError"
        /\ pc = "raised" /\ exc = "KeyError"

\* with a role listed, the lookup returns the devices that pass every filter
\* and, when no listed role is a role of virtual machines, no virtual machine
C29_WithRoles ==
    (pc \in {"returned", "raised"} /\ nb_lookup # None /\ netbox.reachable
        /\ nb_query.device_roles # <<>>) =>
        /\ nb_lookup.status /\ pc = "returned"
        /\ ~netbox.device_roles[1].vm_role => nb_lookup.vms = <<>>

\* ---------------------------------------------------------------------------
LookupEnded == lookup_fn # None /\ pc = "lookup_ended"

\* the keys of the model's entries the SDK adapter's lookup_ise_devices got a
\* detail response for
WithDetails ==
    IF lookup_fn.module = "ciscosdk_ise" /\ lookup_fn.kind = "lookup_ise_devices"
    THEN (1..total) \ {detail_empty} ELSE 1..total

\* the order and the end of the page requests, given the keys a lookup that
\* met no failure must return
PagedLookup(keys) ==
    lookup_fn # None =>
        /\ Len(requested) = page
        /\ \A i \in DOMAIN requested : requested[i] = i
        /\ LookupEnded =>
              /\ page >= 1
              /\ IF fail_at \in 1..page
                 THEN lookup_result = False /\ fail_at = page
                 ELSE /\ lookup_result # False
                      /\ total <= size * page
                      /\ \A q \in 1..(page - 1) : total > size * q
                      /\ lookup_result.keys = keys

\* C30: lookup_groups and lookup_ise_devices, of both adapters, end for every
\* constant total; they request the pages 1, 2, ... in order, page 1 always,
\* stop after the first page p with total <= 20 * p and return the entries of
\* all the pages keyed by name; a page request that fails makes them return
\* False at once, without the entries collected so far.
C30_PagedLookups ==
    /\ (lookup_fn # None) ~> LookupEnded
    /\ []PagedLookup(1..total)

\* the same, with the devices whose detail response was empty left out of
\* what the SDK adapter's lookup_ise_devices returns: holds
C30_ExceptEmptyDetails ==
    /\ (lookup_fn # None) ~> LookupEnded
    /\ []PagedLookup(WithDetails)
====
